---- MODULE Spec2Model ----
(***************************************************************************)
(* Tool-call interpretation and confirmation engine of the Canvas AI       *)
(* assistant (src/app.py): the chat turn handler render_chat, the helpers  *)
(* convert_argument_types and detect_placeholders, the sidebar's state     *)
(* changes, the completion provider's interface (src/groq_service.py) and  *)
(* the tool catalog (src/convert_tools.py, src/tools/*.py).                *)
(*                                                                         *)
(* A Python str is a sequence of one-character strings, so that lower(),   *)
(* upper(), strip(), the in operator and json.loads are computed           *)
(* character by character, as the code computes them.                      *)
(***************************************************************************)
EXTENDS Integers, Sequences, FiniteSets, TLC

-----------------------------------------------------------------------------
(* Python values: the results of json.loads and of the coercions.          *)

None == [t |-> "null"]
PyStr(s) == [t |-> "str", s |-> s]
PyInt(n) == [t |-> "int", n |-> n]
PyBool(b) == [t |-> "bool", b |-> b]
\* a float, as sign, integer part and fraction digits without trailing zeros
PyFloat(neg, ip, frac) == [t |-> "float", neg |-> neg, ip |-> ip, frac |-> frac]
PyList(seq) == [t |-> "list", items |-> seq]
\* a dict is a function from its keys (texts) to values
PyDict(f) == [t |-> "dict", map |-> f]
EmptyMap == [k \in {} |-> None]

\* bool(value): Python truthiness
Truthy(x) ==
  CASE x.t = "null" -> FALSE
    [] x.t = "bool" -> x.b
    [] x.t = "int" -> x.n /= 0
    [] x.t = "float" -> x.ip /= 0 \/ x.frac /= <<>>
    [] x.t = "str" -> Len(x.s) > 0
    [] x.t = "list" -> Len(x.items) > 0
    [] x.t = "dict" -> DOMAIN x.map /= {}

\* value == other, with Python's bool/int/float numeric equality (True == 1)
PyEq(x, y) ==
  LET num(z) == IF z.t = "bool" THEN PyInt(IF z.b THEN 1 ELSE 0)
                ELSE IF z.t = "float" /\ z.frac = <<>>
                     THEN PyInt(IF z.neg THEN 0 - z.ip ELSE z.ip) ELSE z
  IN num(x) = num(y)

-----------------------------------------------------------------------------
(* str methods                                                             *)

\* UpperLetters is the text ABCDEFGHIJKLMNOPQRSTUVWXYZ
UpperLetters == <<"A","B","C","D","E","F","G","H","I","J","K","L","M","N","O","P","Q","R","S","T","U","V","W","X","Y","Z">>
\* LowerLetters is the text abcdefghijklmnopqrstuvwxyz
LowerLetters == <<"a","b","c","d","e","f","g","h","i","j","k","l","m","n","o","p","q","r","s","t","u","v","w","x","y","z">>
\* Digits is the text 0123456789
Digits == <<"0","1","2","3","4","5","6","7","8","9">>
Whitespace == {" ", "\n", "\t", "\r"}

IndexIn(c, seq) == CHOOSE i \in 1..Len(seq) : seq[i] = c
IsIn(c, seq) == \E i \in 1..Len(seq) : seq[i] = c

lower_ch(c) == IF IsIn(c, UpperLetters) THEN LowerLetters[IndexIn(c, UpperLetters)] ELSE c
upper_ch(c) == IF IsIn(c, LowerLetters) THEN UpperLetters[IndexIn(c, LowerLetters)] ELSE c

\* str.lower()
lower(s) == [i \in 1..Len(s) |-> lower_ch(s[i])]
\* str.upper()
upper(s) == [i \in 1..Len(s) |-> upper_ch(s[i])]

\* sub in s
Contains(sub, s) ==
  \E i \in 0..(Len(s) - Len(sub)) : SubSeq(s, i + 1, i + Len(sub)) = sub

startswith(s, p) == Len(s) >= Len(p) /\ SubSeq(s, 1, Len(p)) = p
endswith(s, p) == Len(s) >= Len(p) /\ SubSeq(s, Len(s) - Len(p) + 1, Len(s)) = p

\* str.strip(): drop leading and trailing whitespace
strip(s) ==
  LET keep == {i \in 1..Len(s) : s[i] \notin Whitespace}
  IN IF keep = {} THEN <<>>
     ELSE SubSeq(s, CHOOSE i \in keep : \A j \in keep : i <= j,
                    CHOOSE i \in keep : \A j \in keep : i >= j)

\* value of a digit sequence
RECURSIVE DigitsValue(_)
DigitsValue(ds) ==
  IF ds = <<>> THEN 0
  ELSE 10 * DigitsValue(SubSeq(ds, 1, Len(ds) - 1)) + (IndexIn(ds[Len(ds)], Digits) - 1)

-----------------------------------------------------------------------------
(* json.loads, on the JSON grammar without string escapes and exponents    *)

Fail == [ok |-> FALSE]
Ok(val, next) == [ok |-> TRUE, val |-> val, next |-> next]

\* first index >= i that holds no whitespace
skip_ws(s, i) ==
  CHOOSE j \in i..(Len(s) + 1) :
    /\ (j = Len(s) + 1 \/ s[j] \notin Whitespace)
    /\ \A k \in i..(j - 1) : s[k] \in Whitespace

\* a string literal that opens at s[i]
parse_string(s, i) ==
  LET closes == {j \in (i + 1)..Len(s) : s[j] = "\""}
  IN IF closes = {} THEN Fail
     ELSE LET j == CHOOSE c \in closes : \A d \in closes : c <= d
              body == SubSeq(s, i + 1, j - 1)
          IN IF \E k \in 1..Len(body) : body[k] \in {"\n", "\t", "\r", "\\"}
             THEN Fail
             ELSE Ok(PyStr(body), j + 1)

\* the longest run of digits from s[i]
digit_run(s, i) ==
  LET stop == CHOOSE j \in i..(Len(s) + 1) :
                /\ (j = Len(s) + 1 \/ ~IsIn(s[j], Digits))
                /\ \A k \in i..(j - 1) : IsIn(s[k], Digits)
  IN SubSeq(s, i, stop - 1)

\* drop trailing zeros of a fraction
RECURSIVE trim_zeros(_)
trim_zeros(ds) ==
  IF ds /= <<>> /\ ds[Len(ds)] = "0" THEN trim_zeros(SubSeq(ds, 1, Len(ds) - 1)) ELSE ds

\* a number that starts at s[i]: -?(0|[1-9][0-9]*)(\.[0-9]+)?
parse_number(s, i) ==
  LET neg == s[i] = "-"
      st == IF neg THEN i + 1 ELSE i
      run == digit_run(s, st)
      ip == IF run /= <<>> /\ run[1] = "0" THEN <<"0">> ELSE run
      after == st + Len(ip)
      frac == IF after <= Len(s) /\ s[after] = "." THEN digit_run(s, after + 1) ELSE <<>>
  IN IF ip = <<>> THEN Fail
     ELSE IF frac /= <<>>
          THEN Ok(PyFloat(neg, DigitsValue(ip), trim_zeros(frac)), after + 1 + Len(frac))
          ELSE Ok(PyInt(IF neg THEN 0 - DigitsValue(ip) ELSE DigitsValue(ip)), after)

RECURSIVE parse_value(_, _), parse_members(_, _, _), parse_elements(_, _, _)

\* after a member's value: "}" ends the object, "," opens the next member
members_sep(s, acc, sep) ==
  IF sep > Len(s) THEN Fail
  ELSE IF s[sep] = "}" THEN Ok(PyDict(acc), sep + 1)
  ELSE IF s[sep] = "," THEN parse_members(s, skip_ws(s, sep + 1), acc)
  ELSE Fail

\* a member's value val is stored under key (a repeated key keeps the last value)
members_value(s, acc, key, val) ==
  IF ~val.ok THEN Fail
  ELSE members_sep(s, [k \in DOMAIN acc \cup {key} |-> IF k = key THEN val.val ELSE acc[k]],
                   skip_ws(s, val.next))

\* after a member's key: a colon, then the value
members_colon(s, acc, key, colon) ==
  IF colon > Len(s) \/ s[colon] /= ":" THEN Fail
  ELSE members_value(s, acc, key, parse_value(s, skip_ws(s, colon + 1)))

members_key(s, acc, key) ==
  IF ~key.ok THEN Fail ELSE members_colon(s, acc, key.val.s, skip_ws(s, key.next))

\* members of an object; s[i] must open a key
parse_members(s, i, acc) ==
  IF i > Len(s) \/ s[i] /= "\"" THEN Fail ELSE members_key(s, acc, parse_string(s, i))

\* after an element: "]" ends the array, "," opens the next element
elements_sep(s, acc, sep) ==
  IF sep > Len(s) THEN Fail
  ELSE IF s[sep] = "]" THEN Ok(PyList(acc), sep + 1)
  ELSE IF s[sep] = "," THEN parse_elements(s, skip_ws(s, sep + 1), acc)
  ELSE Fail

elements_value(s, acc, val) ==
  IF ~val.ok THEN Fail ELSE elements_sep(s, Append(acc, val.val), skip_ws(s, val.next))

\* elements of an array
parse_elements(s, i, acc) == elements_value(s, acc, parse_value(s, i))

\* "{" at s[i - 1]: the empty object or its members
parse_object(s, j) ==
  IF j <= Len(s) /\ s[j] = "}" THEN Ok(PyDict(EmptyMap), j + 1)
  ELSE parse_members(s, j, EmptyMap)

\* "[" at s[i - 1]: the empty array or its elements
parse_array(s, j) ==
  IF j <= Len(s) /\ s[j] = "]" THEN Ok(PyList(<<>>), j + 1)
  ELSE parse_elements(s, j, <<>>)

parse_value(s, i) ==
  IF i > Len(s) THEN Fail
  ELSE IF s[i] = "\"" THEN parse_string(s, i)
  ELSE IF s[i] = "{" THEN parse_object(s, skip_ws(s, i + 1))
  ELSE IF s[i] = "[" THEN parse_array(s, skip_ws(s, i + 1))
  ELSE IF startswith(SubSeq(s, i, Len(s)), <<"n","u","l","l">>) THEN Ok(None, i + 4)
  ELSE IF startswith(SubSeq(s, i, Len(s)), <<"t","r","u","e">>) THEN Ok(PyBool(TRUE), i + 4)
  ELSE IF startswith(SubSeq(s, i, Len(s)), <<"f","a","l","s","e">>) THEN Ok(PyBool(FALSE), i + 5)
  ELSE IF s[i] = "-" \/ IsIn(s[i], Digits) THEN parse_number(s, i)
  ELSE Fail

\* the parsed value when nothing but whitespace follows it
whole_text(s, r) ==
  IF r.ok /\ skip_ws(s, r.next) = Len(s) + 1 THEN [ok |-> TRUE, val |-> r.val] ELSE Fail

\* json.loads(s): the value when the whole text is one JSON value, else JSONDecodeError
json_loads(s) == whole_text(s, parse_value(s, skip_ws(s, 1)))

-----------------------------------------------------------------------------
(* The tool catalog                                                        *)

\* src/tools/course_tools.py: each declaration's name and parameters.properties (name -> type)
get_course_tools ==
  <<
    [name |-> <<"l","i","s","t","_","c","o","u","r","s","e","s">>,
     properties |-> <<"e","n","r","o","l","l","m","e","n","t","_","t","y","p","e">> :> "string" @@
                  <<"e","n","r","o","l","l","m","e","n","t","_","s","t","a","t","e">> :> "string"],
    [name |-> <<"g","e","t","_","c","o","u","r","s","e">>,
     properties |-> <<"c","o","u","r","s","e","_","i","d">> :> "integer"],
    [name |-> <<"c","r","e","a","t","e","_","c","o","u","r","s","e">>,
     properties |-> <<"a","c","c","o","u","n","t","_","i","d">> :> "integer" @@
                  <<"n","a","m","e">> :> "string" @@
                  <<"c","o","u","r","s","e","_","c","o","d","e">> :> "string" @@
                  <<"s","t","a","r","t","_","a","t">> :> "string" @@
                  <<"e","n","d","_","a","t">> :> "string"],
    [name |-> <<"u","p","d","a","t","e","_","c","o","u","r","s","e">>,
     properties |-> <<"c","o","u","r","s","e","_","i","d">> :> "integer" @@
                  <<"n","a","m","e">> :> "string" @@
                  <<"c","o","u","r","s","e","_","c","o","d","e">> :> "string" @@
                  <<"e","v","e","n","t">> :> "string"],
    [name |-> <<"d","e","l","e","t","e","_","c","o","u","r","s","e">>,
     properties |-> <<"c","o","u","r","s","e","_","i","d">> :> "integer" @@
                  <<"e","v","e","n","t">> :> "string"]
  >>

\* src/tools/module_tools.py: each declaration's name and parameters.properties (name -> type)
get_module_tools ==
  <<
    [name |-> <<"l","i","s","t","_","m","o","d","u","l","e","s">>,
     properties |-> <<"c","o","u","r","s","e","_","i","d">> :> "integer" @@
                  <<"i","n","c","l","u","d","e","_","i","t","e","m","s">> :> "boolean"],
    [name |-> <<"g","e","t","_","m","o","d","u","l","e">>,
     properties |-> <<"c","o","u","r","s","e","_","i","d">> :> "integer" @@
                  <<"m","o","d","u","l","e","_","i","d">> :> "integer"],
    [name |-> <<"c","r","e","a","t","e","_","m","o","d","u","l","e">>,
     properties |-> <<"c","o","u","r","s","e","_","i","d">> :> "integer" @@
                  <<"n","a","m","e">> :> "string" @@
                  <<"p","o","s","i","t","i","o","n">> :> "integer" @@
                  <<"r","e","q","u","i","r","e","_","s","e","q","u","e","n","t","i","a","l","_","p","r","o","g","r","e","s","s">> :> "boolean" @@
                  <<"u","n","l","o","c","k","_","a","t">> :> "string"],
    [name |-> <<"u","p","d","a","t","e","_","m","o","d","u","l","e">>,
     properties |-> <<"c","o","u","r","s","e","_","i","d">> :> "integer" @@
                  <<"m","o","d","u","l","e","_","i","d">> :> "integer" @@
                  <<"n","a","m","e">> :> "string" @@
                  <<"p","u","b","l","i","s","h","e","d">> :> "boolean"],
    [name |-> <<"d","e","l","e","t","e","_","m","o","d","u","l","e">>,
     properties |-> <<"c","o","u","r","s","e","_","i","d">> :> "integer" @@
                  <<"m","o","d","u","l","e","_","i","d">> :> "integer"],
    [name |-> <<"c","r","e","a","t","e","_","m","o","d","u","l","e","_","i","t","e","m">>,
     properties |-> <<"c","o","u","r","s","e","_","i","d">> :> "integer" @@
                  <<"m","o","d","u","l","e","_","i","d">> :> "integer" @@
                  <<"t","i","t","l","e">> :> "string" @@
                  <<"t","y","p","e">> :> "string" @@
                  <<"c","o","n","t","e","n","t","_","i","d">> :> "integer" @@
                  <<"p","a","g","e","_","u","r","l">> :> "string" @@
                  <<"e","x","t","e","r","n","a","l","_","u","r","l">> :> "string" @@
                  <<"p","o","s","i","t","i","o","n">> :> "integer" @@
                  <<"i","n","d","e","n","t">> :> "integer"],
    [name |-> <<"c","r","e","a","t","e","_","m","o","d","u","l","e","_","w","i","t","h","_","i","t","e","m","s">>,
     properties |-> <<"c","o","u","r","s","e","_","i","d">> :> "integer" @@
                  <<"n","a","m","e">> :> "string" @@
                  <<"p","o","s","i","t","i","o","n">> :> "integer" @@
                  <<"u","n","l","o","c","k","_","a","t">> :> "string" @@
                  <<"r","e","q","u","i","r","e","_","s","e","q","u","e","n","t","i","a","l","_","p","r","o","g","r","e","s","s">> :> "boolean" @@
                  <<"i","t","e","m","s">> :> "array"]
  >>

\* src/tools/page_tools.py: each declaration's name and parameters.properties (name -> type)
get_page_tools ==
  <<
    [name |-> <<"l","i","s","t","_","p","a","g","e","s">>,
     properties |-> <<"c","o","u","r","s","e","_","i","d">> :> "integer" @@
                  <<"s","e","a","r","c","h","_","t","e","r","m">> :> "string" @@
                  <<"p","u","b","l","i","s","h","e","d">> :> "boolean"],
    [name |-> <<"g","e","t","_","p","a","g","e">>,
     properties |-> <<"c","o","u","r","s","e","_","i","d">> :> "integer" @@
                  <<"p","a","g","e","_","u","r","l">> :> "string"],
    [name |-> <<"c","r","e","a","t","e","_","p","a","g","e">>,
     properties |-> <<"c","o","u","r","s","e","_","i","d">> :> "integer" @@
                  <<"t","i","t","l","e">> :> "string" @@
                  <<"b","o","d","y">> :> "string" @@
                  <<"p","u","b","l","i","s","h","e","d">> :> "boolean" @@
                  <<"f","r","o","n","t","_","p","a","g","e">> :> "boolean" @@
                  <<"e","d","i","t","i","n","g","_","r","o","l","e","s">> :> "string"],
    [name |-> <<"u","p","d","a","t","e","_","p","a","g","e">>,
     properties |-> <<"c","o","u","r","s","e","_","i","d">> :> "integer" @@
                  <<"p","a","g","e","_","u","r","l">> :> "string" @@
                  <<"t","i","t","l","e">> :> "string" @@
                  <<"b","o","d","y">> :> "string" @@
                  <<"p","u","b","l","i","s","h","e","d">> :> "boolean"],
    [name |-> <<"d","e","l","e","t","e","_","p","a","g","e">>,
     properties |-> <<"c","o","u","r","s","e","_","i","d">> :> "integer" @@
                  <<"p","a","g","e","_","u","r","l">> :> "string"]
  >>

\* src/tools/assignment_tools.py: each declaration's name and parameters.properties (name -> type)
get_assignment_tools ==
  <<
    [name |-> <<"l","i","s","t","_","a","s","s","i","g","n","m","e","n","t","s">>,
     properties |-> <<"c","o","u","r","s","e","_","i","d">> :> "integer" @@
                  <<"s","e","a","r","c","h","_","t","e","r","m">> :> "string" @@
                  <<"b","u","c","k","e","t">> :> "string"],
    [name |-> <<"g","e","t","_","a","s","s","i","g","n","m","e","n","t">>,
     properties |-> <<"c","o","u","r","s","e","_","i","d">> :> "integer" @@
                  <<"a","s","s","i","g","n","m","e","n","t","_","i","d">> :> "integer"],
    [name |-> <<"c","r","e","a","t","e","_","a","s","s","i","g","n","m","e","n","t">>,
     properties |-> <<"c","o","u","r","s","e","_","i","d">> :> "integer" @@
                  <<"n","a","m","e">> :> "string" @@
                  <<"d","e","s","c","r","i","p","t","i","o","n">> :> "string" @@
                  <<"p","o","i","n","t","s","_","p","o","s","s","i","b","l","e">> :> "number" @@
                  <<"d","u","e","_","a","t">> :> "string" @@
                  <<"s","u","b","m","i","s","s","i","o","n","_","t","y","p","e","s">> :> "array" @@
                  <<"p","u","b","l","i","s","h","e","d">> :> "boolean" @@
                  <<"g","r","a","d","i","n","g","_","t","y","p","e">> :> "string"],
    [name |-> <<"u","p","d","a","t","e","_","a","s","s","i","g","n","m","e","n","t">>,
     properties |-> <<"c","o","u","r","s","e","_","i","d">> :> "integer" @@
                  <<"a","s","s","i","g","n","m","e","n","t","_","i","d">> :> "integer" @@
                  <<"n","a","m","e">> :> "string" @@
                  <<"d","e","s","c","r","i","p","t","i","o","n">> :> "string" @@
                  <<"p","o","i","n","t","s","_","p","o","s","s","i","b","l","e">> :> "number" @@
                  <<"d","u","e","_","a","t">> :> "string" @@
                  <<"p","u","b","l","i","s","h","e","d">> :> "boolean"],
    [name |-> <<"d","e","l","e","t","e","_","a","s","s","i","g","n","m","e","n","t">>,
     properties |-> <<"c","o","u","r","s","e","_","i","d">> :> "integer" @@
                  <<"a","s","s","i","g","n","m","e","n","t","_","i","d">> :> "integer"]
  >>

\* src/tools/quiz_tools.py: each declaration's name and parameters.properties (name -> type)
get_quiz_tools ==
  <<
    [name |-> <<"l","i","s","t","_","q","u","i","z","z","e","s">>,
     properties |-> <<"c","o","u","r","s","e","_","i","d">> :> "integer" @@
                  <<"s","e","a","r","c","h","_","t","e","r","m">> :> "string"],
    [name |-> <<"g","e","t","_","q","u","i","z">>,
     properties |-> <<"c","o","u","r","s","e","_","i","d">> :> "integer" @@
                  <<"q","u","i","z","_","i","d">> :> "integer"],
    [name |-> <<"c","r","e","a","t","e","_","q","u","i","z">>,
     properties |-> <<"c","o","u","r","s","e","_","i","d">> :> "integer" @@
                  <<"t","i","t","l","e">> :> "string" @@
                  <<"d","e","s","c","r","i","p","t","i","o","n">> :> "string" @@
                  <<"q","u","i","z","_","t","y","p","e">> :> "string" @@
                  <<"t","i","m","e","_","l","i","m","i","t">> :> "integer" @@
                  <<"s","h","u","f","f","l","e","_","a","n","s","w","e","r","s">> :> "boolean" @@
                  <<"a","l","l","o","w","e","d","_","a","t","t","e","m","p","t","s">> :> "integer" @@
                  <<"s","c","o","r","i","n","g","_","p","o","l","i","c","y">> :> "string" @@
                  <<"d","u","e","_","a","t">> :> "string" @@
                  <<"p","u","b","l","i","s","h","e","d">> :> "boolean"],
    [name |-> <<"u","p","d","a","t","e","_","q","u","i","z">>,
     properties |-> <<"c","o","u","r","s","e","_","i","d">> :> "integer" @@
                  <<"q","u","i","z","_","i","d">> :> "integer" @@
                  <<"t","i","t","l","e">> :> "string" @@
                  <<"d","e","s","c","r","i","p","t","i","o","n">> :> "string" @@
                  <<"t","i","m","e","_","l","i","m","i","t">> :> "integer" @@
                  <<"p","u","b","l","i","s","h","e","d">> :> "boolean"],
    [name |-> <<"d","e","l","e","t","e","_","q","u","i","z">>,
     properties |-> <<"c","o","u","r","s","e","_","i","d">> :> "integer" @@
                  <<"q","u","i","z","_","i","d">> :> "integer"]
  >>

\* src/tools/discussion_tools.py: each declaration's name and parameters.properties (name -> type)
get_discussion_tools ==
  <<
    [name |-> <<"l","i","s","t","_","d","i","s","c","u","s","s","i","o","n","s">>,
     properties |-> <<"c","o","u","r","s","e","_","i","d">> :> "integer" @@
                  <<"s","e","a","r","c","h","_","t","e","r","m">> :> "string"],
    [name |-> <<"g","e","t","_","d","i","s","c","u","s","s","i","o","n">>,
     properties |-> <<"c","o","u","r","s","e","_","i","d">> :> "integer" @@
                  <<"t","o","p","i","c","_","i","d">> :> "integer"],
    [name |-> <<"c","r","e","a","t","e","_","d","i","s","c","u","s","s","i","o","n">>,
     properties |-> <<"c","o","u","r","s","e","_","i","d">> :> "integer" @@
                  <<"t","i","t","l","e">> :> "string" @@
                  <<"m","e","s","s","a","g","e">> :> "string" @@
                  <<"d","i","s","c","u","s","s","i","o","n","_","t","y","p","e">> :> "string" @@
                  <<"p","u","b","l","i","s","h","e","d">> :> "boolean" @@
                  <<"i","s","_","a","n","n","o","u","n","c","e","m","e","n","t">> :> "boolean" @@
                  <<"p","i","n","n","e","d">> :> "boolean" @@
                  <<"r","e","q","u","i","r","e","_","i","n","i","t","i","a","l","_","p","o","s","t">> :> "boolean"],
    [name |-> <<"c","r","e","a","t","e","_","a","n","n","o","u","n","c","e","m","e","n","t">>,
     properties |-> <<"c","o","u","r","s","e","_","i","d">> :> "integer" @@
                  <<"t","i","t","l","e">> :> "string" @@
                  <<"m","e","s","s","a","g","e">> :> "string" @@
                  <<"p","u","b","l","i","s","h","e","d">> :> "boolean"],
    [name |-> <<"u","p","d","a","t","e","_","d","i","s","c","u","s","s","i","o","n">>,
     properties |-> <<"c","o","u","r","s","e","_","i","d">> :> "integer" @@
                  <<"t","o","p","i","c","_","i","d">> :> "integer" @@
                  <<"t","i","t","l","e">> :> "string" @@
                  <<"m","e","s","s","a","g","e">> :> "string" @@
                  <<"p","u","b","l","i","s","h","e","d">> :> "boolean"],
    [name |-> <<"d","e","l","e","t","e","_","d","i","s","c","u","s","s","i","o","n">>,
     properties |-> <<"c","o","u","r","s","e","_","i","d">> :> "integer" @@
                  <<"t","o","p","i","c","_","i","d">> :> "integer"],
    [name |-> <<"p","o","s","t","_","d","i","s","c","u","s","s","i","o","n","_","e","n","t","r","y">>,
     properties |-> <<"c","o","u","r","s","e","_","i","d">> :> "integer" @@
                  <<"t","o","p","i","c","_","i","d">> :> "integer" @@
                  <<"m","e","s","s","a","g","e">> :> "string"]
  >>

\* the public methods of CanvasClient (hasattr(canvas_client, tool_name))
CanvasClientMethods ==
  {<<"l","i","s","t","_","c","o","u","r","s","e","s">>,
   <<"g","e","t","_","c","o","u","r","s","e">>,
   <<"c","r","e","a","t","e","_","c","o","u","r","s","e">>,
   <<"u","p","d","a","t","e","_","c","o","u","r","s","e">>,
   <<"d","e","l","e","t","e","_","c","o","u","r","s","e">>,
   <<"l","i","s","t","_","m","o","d","u","l","e","s">>,
   <<"g","e","t","_","m","o","d","u","l","e">>,
   <<"c","r","e","a","t","e","_","m","o","d","u","l","e">>,
   <<"u","p","d","a","t","e","_","m","o","d","u","l","e">>,
   <<"d","e","l","e","t","e","_","m","o","d","u","l","e">>,
   <<"c","r","e","a","t","e","_","m","o","d","u","l","e","_","i","t","e","m">>,
   <<"l","i","s","t","_","p","a","g","e","s">>,
   <<"g","e","t","_","p","a","g","e">>,
   <<"c","r","e","a","t","e","_","p","a","g","e">>,
   <<"u","p","d","a","t","e","_","p","a","g","e">>,
   <<"d","e","l","e","t","e","_","p","a","g","e">>,
   <<"l","i","s","t","_","a","s","s","i","g","n","m","e","n","t","s">>,
   <<"g","e","t","_","a","s","s","i","g","n","m","e","n","t">>,
   <<"c","r","e","a","t","e","_","a","s","s","i","g","n","m","e","n","t">>,
   <<"u","p","d","a","t","e","_","a","s","s","i","g","n","m","e","n","t">>,
   <<"d","e","l","e","t","e","_","a","s","s","i","g","n","m","e","n","t">>,
   <<"l","i","s","t","_","d","i","s","c","u","s","s","i","o","n","s">>,
   <<"g","e","t","_","d","i","s","c","u","s","s","i","o","n">>,
   <<"c","r","e","a","t","e","_","d","i","s","c","u","s","s","i","o","n">>,
   <<"u","p","d","a","t","e","_","d","i","s","c","u","s","s","i","o","n">>,
   <<"d","e","l","e","t","e","_","d","i","s","c","u","s","s","i","o","n">>,
   <<"p","o","s","t","_","d","i","s","c","u","s","s","i","o","n","_","e","n","t","r","y">>,
   <<"l","i","s","t","_","q","u","i","z","z","e","s">>,
   <<"g","e","t","_","q","u","i","z">>,
   <<"c","r","e","a","t","e","_","q","u","i","z">>,
   <<"u","p","d","a","t","e","_","q","u","i","z">>,
   <<"d","e","l","e","t","e","_","q","u","i","z">>,
   <<"c","r","e","a","t","e","_","a","n","n","o","u","n","c","e","m","e","n","t">>}


RECURSIVE dedup_by_name(_, _)
\* tool_map[tool_name] = ...: one entry per name, at the place of its first
\* declaration, holding the last declaration of that name
dedup_by_name(tools, seen) ==
  IF tools = <<>> THEN <<>>
  ELSE IF Head(tools).name \in seen THEN dedup_by_name(Tail(tools), seen)
  ELSE LET same == SelectSeq(tools, LAMBDA t : t.name = Head(tools).name)
       IN <<same[Len(same)]>> \o dedup_by_name(Tail(tools), seen \cup {Head(tools).name})

\* get_all_canvas_tools(canvas_client): the declarations whose name is a client method
get_all_canvas_tools ==
  dedup_by_name(
    SelectSeq(get_course_tools \o get_module_tools \o get_page_tools \o
              get_assignment_tools \o get_quiz_tools \o get_discussion_tools,
              LAMBDA t : t.name \in CanvasClientMethods),
    {})

\* st.session_state.available_tools
available_tools == get_all_canvas_tools

\* tool_names = [t['name'] for t in available_tools]
tool_names == {available_tools[i].name : i \in 1..Len(available_tools)}

\* the first tool of the catalog with this name (the for loop of the confirmation)
find_tool(name) ==
  available_tools[CHOOSE i \in 1..Len(available_tools) :
                    /\ available_tools[i].name = name
                    /\ \A j \in 1..(i - 1) : available_tools[j].name /= name]

-----------------------------------------------------------------------------
(* Schema normalization (the confirmation branch of render_chat) and       *)
(* convert_argument_types                                                  *)

\* k_course_id is the text course_id
k_course_id == <<"c","o","u","r","s","e","_","i","d">>
\* k_include_items is the text include_items
k_include_items == <<"i","n","c","l","u","d","e","_","i","t","e","m","s">>
\* k_include is the text include
k_include == <<"i","n","c","l","u","d","e">>
\* k_event is the text event
k_event == <<"e","v","e","n","t">>
\* k_tool is the text tool
k_tool == <<"t","o","o","l">>
\* k_parameters is the text parameters
k_parameters == <<"p","a","r","a","m","e","t","e","r","s">>

\* arguments[key] = value
dict_set(args, key, value) ==
  [k \in DOMAIN args \cup {key} |-> IF k = key THEN value ELSE args[k]]
\* arguments without key
dict_del(args, key) == [k \in DOMAIN args \ {key} |-> args[k]]


\* a variant of inject_course_id that always puts the sidebar course in
inject_course_id_always(args, expected_params, course) ==
  IF Truthy(course) /\ k_course_id \in expected_params
  THEN dict_set(args, k_course_id, course)
  ELSE args

\* Auto-inject course_id from sidebar context
inject_course_id(args, expected_params, course) ==
  IF /\ Truthy(course)
     /\ k_course_id \in expected_params
     /\ ~(k_course_id \in DOMAIN args /\ Truthy(args[k_course_id]))
  THEN dict_set(args, k_course_id, course)
  ELSE args

\* param_aliases, in insertion order
param_aliases ==
  << <<<<"c","o","n","t","e","n","t">>, <<"b","o","d","y">>>>,
     <<<<"s","u","b","j","e","c","t">>, <<"t","i","t","l","e">>>>,
     <<<<"b","o","d","y">>, <<"m","e","s","s","a","g","e">>>>,
     <<<<"i","s","_","p","u","b","l","i","s","h","e","d">>, <<"p","u","b","l","i","s","h","e","d">>>> >>



\* a variant of apply_alias that renames whether or not the incoming name is declared
apply_alias_declared_incoming(args, incoming, target, expected_params) ==
  IF incoming \in DOMAIN args /\ target \in expected_params
  THEN dict_set(dict_del(args, incoming), target, args[incoming])
  ELSE args

\* a variant of apply_alias that renames whether or not the target is declared
apply_alias_any_target(args, incoming, target, expected_params) ==
  IF incoming \in DOMAIN args /\ incoming \notin expected_params
  THEN dict_set(dict_del(args, incoming), target, args[incoming])
  ELSE args

\* one iteration of the alias loop: arguments[target] = arguments.pop(incoming)
apply_alias(args, incoming, target, expected_params) ==
  IF incoming \in DOMAIN args /\ incoming \notin expected_params /\ target \in expected_params
  THEN dict_set(dict_del(args, incoming), target, args[incoming])
  ELSE args

RECURSIVE map_aliases_from(_, _, _)
map_aliases_from(args, i, expected_params) ==
  IF i > Len(param_aliases) THEN args
  ELSE map_aliases_from(
         apply_alias(args, param_aliases[i][1], param_aliases[i][2], expected_params),
         i + 1, expected_params)

\* for incoming, target in param_aliases.items(): ...
map_aliases(args, expected_params) == map_aliases_from(args, 1, expected_params)


\* a variant of include_items_truthy that takes the value's truthiness
include_items_truthy_any(value) == Truthy(value)

\* include_items_value in [True, 'true', 'True', '1']
include_items_truthy(value) ==
  \E x \in {PyBool(TRUE), PyStr(<<"t","r","u","e">>), PyStr(<<"T","r","u","e">>), PyStr(<<"1">>)} : PyEq(value, x)


\* a variant of map_include_items that removes include_items only when it is rewritten
map_include_items_keep(args) ==
  IF k_include_items \in DOMAIN args /\ include_items_truthy(args[k_include_items])
  THEN dict_set(dict_del(args, k_include_items), k_include, PyList(<<PyStr(<<"i","t","e","m","s">>)>>))
  ELSE args

\* Special handling: include_items -> include=["items"]
map_include_items(args) ==
  IF k_include_items \in DOMAIN args
  THEN IF include_items_truthy(args[k_include_items])
       THEN dict_set(dict_del(args, k_include_items), k_include, PyList(<<PyStr(<<"i","t","e","m","s">>)>>))
       ELSE dict_del(args, k_include_items)
  ELSE args

\* int(value) of a str: surrounding whitespace, a sign, digits with single underscores
py_int(s) ==
  LET b == strip(s)
      signed == b /= <<>> /\ b[1] \in {"+", "-"}
      body == IF signed THEN SubSeq(b, 2, Len(b)) ELSE b
      wellformed ==
        /\ body /= <<>>
        /\ \A i \in 1..Len(body) :
             \/ IsIn(body[i], Digits)
             \/ /\ body[i] = "_" /\ 1 < i /\ i < Len(body)
                /\ IsIn(body[i - 1], Digits) /\ IsIn(body[i + 1], Digits)
      value == DigitsValue(SelectSeq(body, LAMBDA c : c /= "_"))
  IN IF wellformed
     THEN [ok |-> TRUE, val |-> PyInt(IF signed /\ b[1] = "-" THEN 0 - value ELSE value)]
     ELSE Fail

\* digits, with single underscores between digits
digit_part(p) ==
  \A i \in 1..Len(p) :
    \/ IsIn(p[i], Digits)
    \/ /\ p[i] = "_" /\ 1 < i /\ i < Len(p)
       /\ IsIn(p[i - 1], Digits) /\ IsIn(p[i + 1], Digits)

\* float(value) of a str in decimal notation: whitespace, a sign, digits, a point, digits
py_float(s) ==
  LET b == strip(s)
      signed == b /= <<>> /\ b[1] \in {"+", "-"}
      body == IF signed THEN SubSeq(b, 2, Len(b)) ELSE b
      points == {i \in 1..Len(body) : body[i] = "."}
      dot == IF points = {} THEN Len(body) + 1 ELSE CHOOSE i \in points : TRUE
      ip == SubSeq(body, 1, dot - 1)
      frac == SubSeq(body, dot + 1, Len(body))
      wellformed ==
        /\ Cardinality(points) <= 1
        /\ ip \o frac /= <<>>
        /\ digit_part(ip) /\ digit_part(frac)
  IN IF wellformed
     THEN [ok |-> TRUE,
           val |-> PyFloat(signed /\ b[1] = "-",
                           DigitsValue(SelectSeq(ip, LAMBDA c : c /= "_")),
                           trim_zeros(SelectSeq(frac, LAMBDA c : c /= "_")))]
     ELSE Fail


\* a variant of convert_value that takes a string's truthiness for a boolean
convert_value_truthy(value, expected_type) ==
  IF expected_type = "integer" /\ value.t = "str"
  THEN IF py_int(value.s).ok THEN py_int(value.s).val ELSE value
  ELSE IF expected_type = "boolean"
  THEN PyBool(Truthy(value))
  ELSE IF expected_type = "number" /\ value.t = "str"
  THEN IF py_float(value.s).ok THEN py_float(value.s).val ELSE value
  ELSE value

\* the value convert_argument_types stores for one key
convert_value(value, expected_type) ==
  IF expected_type = "integer" /\ value.t = "str"
  THEN IF py_int(value.s).ok THEN py_int(value.s).val ELSE value
  ELSE IF expected_type = "boolean"
  THEN IF value.t = "str"
       THEN PyBool(lower(value.s) \in {<<"t","r","u","e">>, <<"1">>, <<"y","e","s">>})
       ELSE PyBool(Truthy(value))
  ELSE IF expected_type = "number" /\ value.t = "str"
  THEN IF py_float(value.s).ok THEN py_float(value.s).val ELSE value
  ELSE value

\* convert_argument_types(arguments, tool_props)
convert_argument_types(arguments, tool_props) ==
  [key \in DOMAIN arguments |->
     IF key \notin DOMAIN tool_props THEN arguments[key]
     ELSE convert_value(arguments[key], tool_props[key])]

\* a variant of filter_args that passes every key on
filter_args_all(arguments, expected_params) == arguments

\* filtered_args = {k: v for k, v in arguments.items() if k in expected_params}
filter_args(arguments, expected_params) ==
  [k \in DOMAIN arguments \cap expected_params |-> arguments[k]]

\* the mapping given to detect_placeholders and to the tool: lines 292-321 in order
normalize(arguments, tool_props, course) ==
  LET expected_params == DOMAIN tool_props
      injected == inject_course_id(arguments, expected_params, course)
      aliased == map_aliases(injected, expected_params)
      included == map_include_items(aliased)
      converted == convert_argument_types(included, tool_props)
  IN filter_args(converted, expected_params)

-----------------------------------------------------------------------------
(* detect_placeholders                                                     *)

placeholder_patterns == {<<"<","Y","O","U","R","_">>, <<"<","H","T","M","L","_">>, <<"<","I","N","S","E","R","T","_">>, <<"<","C","O","U","R","S","E","_">>, <<"<","P","A","G","E","_">>, <<"<","M","O","D","U","L","E","_">>}

\* any(pat in upper_val for pat in placeholder_patterns)
has_template_marker(value) == \E pat \in placeholder_patterns : Contains(pat, upper(value))


\* a variant of is_bare_tag that also rejects values holding a closing tag
is_bare_tag_any(value) ==
  startswith(strip(value), <<"<">>) /\ endswith(strip(value), <<">">>)

\* stripped.startswith('<') and stripped.endswith('>') and '</' not in stripped
is_bare_tag(value) ==
  LET stripped == strip(value)
  IN startswith(stripped, <<"<">>) /\ endswith(stripped, <<">">>) /\ ~Contains(<<"<","/">>, stripped)

\* whether detect_placeholders(arguments) raises ValueError
detect_placeholders(arguments) ==
  \E key \in DOMAIN arguments :
    /\ arguments[key].t = "str"
    /\ (has_template_marker(arguments[key].s) \/ is_bare_tag(arguments[key].s))

-----------------------------------------------------------------------------
(* Tool-call extraction (the idle branch of render_chat)                   *)

\* isinstance(obj, dict) and "tool" in obj and "parameters" in obj
is_tool_call(obj) ==
  obj.t = "dict" /\ k_tool \in DOMAIN obj.map /\ k_parameters \in DOMAIN obj.map

RECURSIVE scan_ends(_, _, _)
\* obj = json.loads(snippet): keep it when it is a tool call, else go on leftwards
try_snippet(text, start, end, r) ==
  IF r.ok /\ is_tool_call(r.val) THEN r.val ELSE scan_ends(text, start, end - 1)

\* for end_idx in range(text_len, start_idx, -1): the first accepted object, or None
scan_ends(text, start, end) ==
  IF end <= start THEN None
  ELSE IF text[end] = "}" THEN try_snippet(text, start, end, json_loads(SubSeq(text, start, end)))
  ELSE scan_ends(text, start, end - 1)

RECURSIVE scan_back(_, _)
\* the hit of this opening brace, else the hit of an earlier one
last_found(text, start, found) ==
  IF found /= None THEN found ELSE scan_back(text, start - 1)

\* the opening braces from right to left
scan_back(text, start) ==
  IF start < 1 THEN None
  ELSE IF text[start] = "{" THEN last_found(text, start, scan_ends(text, start, Len(text)))
  ELSE scan_back(text, start - 1)

\* a variant of scan_starts that prefers the rightmost opening brace
scan_starts_last(text, start) == scan_back(text, Len(text))

RECURSIVE scan_starts(_, _)
\* if found: break
first_found(text, start, found) ==
  IF found /= None THEN found ELSE scan_starts(text, start + 1)

\* for start_idx in [i for i, ch in enumerate(response_text) if ch == "{"]
scan_starts(text, start) ==
  IF start > Len(text) THEN None
  ELSE IF text[start] = "{" THEN first_found(text, start, scan_ends(text, start, Len(text)))
  ELSE scan_starts(text, start + 1)

\* found: the tool call of a model reply, or None
extract_tool_call(response_text) ==
  IF Contains(<<"{">>, response_text) /\ Contains(<<"t","o","o","l">>, response_text)
  THEN scan_starts(response_text, 1)
  ELSE None

-----------------------------------------------------------------------------
(* Session state                                                           *)

VARIABLES
  messages,              \* st.session_state.messages: the conversation history
  pending_confirmation,  \* st.session_state.pending_confirmation: None or the proposed action
  current_course_id,     \* st.session_state.current_course_id: None or the sidebar's course
  calls,                 \* the invocations of Canvas operations made by render_chat, in order
  completions,           \* the number of calls of groq_service.chat
  turn,                  \* the last operator turn handled: its input, the branch taken
                         \* and the session as the turn found it
  exchanges              \* the number of turns that appended to the history

vars ==
  <<messages, pending_confirmation, current_course_id, calls, completions, turn, exchanges>>

\* the number of turns appending to the history that are explored
MaxExchanges == 2

-----------------------------------------------------------------------------
(* Inputs: operator texts, model replies, results of the Canvas operations  *)

\* p_Yes is the text Yes
p_Yes == <<"Y","e","s">>
\* p_no is the text no
p_no == <<"n","o">>
\* p_yes_space is the text yes 
p_yes_space == <<"y","e","s"," ">>
\* p_list_courses is the text List my courses
p_list_courses == <<"L","i","s","t"," ","m","y"," ","c","o","u","r","s","e","s">>
\* p_add_page is the text add a page
p_add_page == <<"a","d","d"," ","a"," ","p","a","g","e">>

Prompts == {p_Yes, p_no, p_yes_space, p_list_courses, p_add_page}

\* r_create_page is the text Sure! {"tool": "create_page", "parameters": {"title": "Hi", "content": "<p>x</p>", "note": "<X>"}} ok?
r_create_page == <<"S","u","r","e","!"," ","{","\"","t","o","o","l","\"",":"," ","\"","c","r","e","a","t","e","_","p","a","g","e","\"",","," ","\"","p","a","r","a","m","e","t","e","r","s","\"",":"," ","{","\"","t","i","t","l","e","\"",":"," ","\"","H","i","\"",","," ","\"","c","o","n","t","e","n","t","\"",":"," ","\"","<","p",">","x","<","/","p",">","\"",","," ","\"","n","o","t","e","\"",":"," ","\"","<","X",">","\"","}","}"," ","o","k","?">>
\* r_placeholder is the text {"tool": "get_course", "parameters": {"course_id": "<COURSE_ID>"}}
r_placeholder == <<"{","\"","t","o","o","l","\"",":"," ","\"","g","e","t","_","c","o","u","r","s","e","\"",","," ","\"","p","a","r","a","m","e","t","e","r","s","\"",":"," ","{","\"","c","o","u","r","s","e","_","i","d","\"",":"," ","\"","<","C","O","U","R","S","E","_","I","D",">","\"","}","}">>
\* r_unknown_tool is the text {"tool": "drop_all", "parameters": {}}
r_unknown_tool == <<"{","\"","t","o","o","l","\"",":"," ","\"","d","r","o","p","_","a","l","l","\"",","," ","\"","p","a","r","a","m","e","t","e","r","s","\"",":"," ","{","}","}">>
\* r_bad_event is the text {"tool": "update_course", "parameters": {"course_id": 5, "event": "publish"}}
r_bad_event == <<"{","\"","t","o","o","l","\"",":"," ","\"","u","p","d","a","t","e","_","c","o","u","r","s","e","\"",","," ","\"","p","a","r","a","m","e","t","e","r","s","\"",":"," ","{","\"","c","o","u","r","s","e","_","i","d","\"",":"," ","5",","," ","\"","e","v","e","n","t","\"",":"," ","\"","p","u","b","l","i","s","h","\"","}","}">>
\* r_null_parameters is the text {"tool": "list_courses", "parameters": null}
r_null_parameters == <<"{","\"","t","o","o","l","\"",":"," ","\"","l","i","s","t","_","c","o","u","r","s","e","s","\"",","," ","\"","p","a","r","a","m","e","t","e","r","s","\"",":"," ","n","u","l","l","}">>
\* r_list_courses is the text {"tool": "list_courses", "parameters": {"enrollment_type": "student"}}
r_list_courses == <<"{","\"","t","o","o","l","\"",":"," ","\"","l","i","s","t","_","c","o","u","r","s","e","s","\"",","," ","\"","p","a","r","a","m","e","t","e","r","s","\"",":"," ","{","\"","e","n","r","o","l","l","m","e","n","t","_","t","y","p","e","\"",":"," ","\"","s","t","u","d","e","n","t","\"","}","}">>
\* r_prose is the text You teach 2 courses.
r_prose == <<"Y","o","u"," ","t","e","a","c","h"," ","2"," ","c","o","u","r","s","e","s",".">>
\* r_claims_done is the text I have created it.
r_claims_done == <<"I"," ","h","a","v","e"," ","c","r","e","a","t","e","d"," ","i","t",".">>

Replies == {r_create_page, r_placeholder, r_unknown_tool, r_bad_event, r_null_parameters,
            r_list_courses, r_prose, r_claims_done}

\* further replies, chosen for what the scan of lines 433-459 does with them
\* e_two_calls is the text {"tool": "list_courses", "parameters": {}} {"tool": "get_course", "parameters": {"course_id": 1}}
e_two_calls == <<"{","\"","t","o","o","l","\"",":"," ","\"","l","i","s","t","_","c","o","u","r","s","e","s","\"",","," ","\"","p","a","r","a","m","e","t","e","r","s","\"",":"," ","{","}","}"," ","{","\"","t","o","o","l","\"",":"," ","\"","g","e","t","_","c","o","u","r","s","e","\"",","," ","\"","p","a","r","a","m","e","t","e","r","s","\"",":"," ","{","\"","c","o","u","r","s","e","_","i","d","\"",":"," ","1","}","}">>
\* e_adjacent is the text {"tool": "get_course", "parameters": {}}{"tool": "list_courses", "parameters": {}}
e_adjacent == <<"{","\"","t","o","o","l","\"",":"," ","\"","g","e","t","_","c","o","u","r","s","e","\"",","," ","\"","p","a","r","a","m","e","t","e","r","s","\"",":"," ","{","}","}","{","\"","t","o","o","l","\"",":"," ","\"","l","i","s","t","_","c","o","u","r","s","e","s","\"",","," ","\"","p","a","r","a","m","e","t","e","r","s","\"",":"," ","{","}","}">>
\* e_wrapped is the text {"note": {"tool": "list_courses", "parameters": {}}}
e_wrapped == <<"{","\"","n","o","t","e","\"",":"," ","{","\"","t","o","o","l","\"",":"," ","\"","l","i","s","t","_","c","o","u","r","s","e","s","\"",","," ","\"","p","a","r","a","m","e","t","e","r","s","\"",":"," ","{","}","}","}">>
\* e_nested is the text {"tool": "get_course", "parameters": {"tool": "list_courses", "parameters": {}}}
e_nested == <<"{","\"","t","o","o","l","\"",":"," ","\"","g","e","t","_","c","o","u","r","s","e","\"",","," ","\"","p","a","r","a","m","e","t","e","r","s","\"",":"," ","{","\"","t","o","o","l","\"",":"," ","\"","l","i","s","t","_","c","o","u","r","s","e","s","\"",","," ","\"","p","a","r","a","m","e","t","e","r","s","\"",":"," ","{","}","}","}">>
\* e_in_array is the text [{"tool": "list_courses", "parameters": {}}]
e_in_array == <<"[","{","\"","t","o","o","l","\"",":"," ","\"","l","i","s","t","_","c","o","u","r","s","e","s","\"",","," ","\"","p","a","r","a","m","e","t","e","r","s","\"",":"," ","{","}","}","]">>
\* e_no_brace is the text tool: list_courses
e_no_brace == <<"t","o","o","l",":"," ","l","i","s","t","_","c","o","u","r","s","e","s">>
\* e_no_tool_word is the text {"name": "list_courses", "parameters": {}}
e_no_tool_word == <<"{","\"","n","a","m","e","\"",":"," ","\"","l","i","s","t","_","c","o","u","r","s","e","s","\"",","," ","\"","p","a","r","a","m","e","t","e","r","s","\"",":"," ","{","}","}">>
\* e_tool_in_prose is the text use the tool {"a": 1}
e_tool_in_prose == <<"u","s","e"," ","t","h","e"," ","t","o","o","l"," ","{","\"","a","\"",":"," ","1","}">>
\* e_unclosed is the text {"tool": "list_courses", "parameters": {}
e_unclosed == <<"{","\"","t","o","o","l","\"",":"," ","\"","l","i","s","t","_","c","o","u","r","s","e","s","\"",","," ","\"","p","a","r","a","m","e","t","e","r","s","\"",":"," ","{","}">>
\* e_single_quotes is the text {'tool': 'list_courses', 'parameters': {}}
e_single_quotes == <<"{","'","t","o","o","l","'",":"," ","'","l","i","s","t","_","c","o","u","r","s","e","s","'",","," ","'","p","a","r","a","m","e","t","e","r","s","'",":"," ","{","}","}">>
\* e_missing_parameters is the text {"tool": "list_courses"}
e_missing_parameters == <<"{","\"","t","o","o","l","\"",":"," ","\"","l","i","s","t","_","c","o","u","r","s","e","s","\"","}">>
\* e_brace_after is the text {"tool": "list_courses", "parameters": {}} and } more
e_brace_after == <<"{","\"","t","o","o","l","\"",":"," ","\"","l","i","s","t","_","c","o","u","r","s","e","s","\"",","," ","\"","p","a","r","a","m","e","t","e","r","s","\"",":"," ","{","}","}"," ","a","n","d"," ","}"," ","m","o","r","e">>
\* e_invalid_first is the text {oops} {"tool": "list_courses", "parameters": {}}
e_invalid_first == <<"{","o","o","p","s","}"," ","{","\"","t","o","o","l","\"",":"," ","\"","l","i","s","t","_","c","o","u","r","s","e","s","\"",","," ","\"","p","a","r","a","m","e","t","e","r","s","\"",":"," ","{","}","}">>
\* e_extra_key is the text {"tool": "list_courses", "parameters": {}, "why": "x"}
e_extra_key == <<"{","\"","t","o","o","l","\"",":"," ","\"","l","i","s","t","_","c","o","u","r","s","e","s","\"",","," ","\"","p","a","r","a","m","e","t","e","r","s","\"",":"," ","{","}",","," ","\"","w","h","y","\"",":"," ","\"","x","\"","}">>
\* e_claims_and_calls is the text I have created it: {"tool": "create_page", "parameters": {"title": "T"}}
e_claims_and_calls == <<"I"," ","h","a","v","e"," ","c","r","e","a","t","e","d"," ","i","t",":"," ","{","\"","t","o","o","l","\"",":"," ","\"","c","r","e","a","t","e","_","p","a","g","e","\"",","," ","\"","p","a","r","a","m","e","t","e","r","s","\"",":"," ","{","\"","t","i","t","l","e","\"",":"," ","\"","T","\"","}","}">>
\* e_tool_number is the text {"tool": 5, "parameters": {}}
e_tool_number == <<"{","\"","t","o","o","l","\"",":"," ","5",","," ","\"","p","a","r","a","m","e","t","e","r","s","\"",":"," ","{","}","}">>
\* e_tool_null is the text {"tool": null, "parameters": {}}
e_tool_null == <<"{","\"","t","o","o","l","\"",":"," ","n","u","l","l",","," ","\"","p","a","r","a","m","e","t","e","r","s","\"",":"," ","{","}","}">>
\* e_parameters_list is the text {"tool": "list_courses", "parameters": [1]}
e_parameters_list == <<"{","\"","t","o","o","l","\"",":"," ","\"","l","i","s","t","_","c","o","u","r","s","e","s","\"",","," ","\"","p","a","r","a","m","e","t","e","r","s","\"",":"," ","[","1","]","}">>
\* e_parameters_number is the text {"tool": "list_courses", "parameters": 3}
e_parameters_number == <<"{","\"","t","o","o","l","\"",":"," ","\"","l","i","s","t","_","c","o","u","r","s","e","s","\"",","," ","\"","p","a","r","a","m","e","t","e","r","s","\"",":"," ","3","}">>
\* e_empty is the text 
e_empty == <<>>
\* what GroqService.chat returns when the request raises
\* e_provider_error is the text Error communicating with Groq: timeout
e_provider_error == <<"E","r","r","o","r"," ","c","o","m","m","u","n","i","c","a","t","i","n","g"," ","w","i","t","h"," ","G","r","o","q",":"," ","t","i","m","e","o","u","t">>

ExtractTexts ==
  Replies \cup
  {e_two_calls, e_adjacent, e_wrapped, e_nested, e_in_array, e_no_brace, e_no_tool_word,
   e_tool_in_prose, e_unclosed, e_single_quotes, e_missing_parameters, e_brace_after,
   e_invalid_first, e_extra_key, e_claims_and_calls, e_tool_number, e_tool_null,
   e_parameters_list, e_parameters_number, e_empty, e_provider_error}


\* a reply that is one tool call, as the system prompt asks for it:
\* {"tool": "name", "parameters": {...}}
call_text(tool, members) ==
  <<"{","\"","t","o","o","l","\"",":"," ","\"">> \o tool \o <<"\"",","," ","\"","p","a","r","a","m","e","t","e","r","s","\"",":"," ","{">> \o members \o <<"}","}">>
\* one member of the parameters object, value being a JSON literal
member(key, value) == <<"\"">> \o key \o <<"\"",":"," ">> \o value
and(m1, m2) == m1 \o <<","," ">> \o m2

\* JSON literals the model may give as an argument value
CoercionLiterals ==
  {<<"\"","1","2","3","\"">>, <<"\"","a","b","c","\"">>, <<"\"","Y","e","s","\"">>, <<"\"","1","\"">>, <<"\"","T","R","U","E","\"">>, <<"\"","1",".","5","\"">>, <<"\""," ","4","2"," ","\"">>, <<"\"","-","3","\"">>, <<"\"","n","o","\"">>, <<"\"","\"">>,
   <<"\"","1","_","0","0","0","\"">>, <<"\"","0","\"">>, <<"5">>, <<"0">>, <<"2",".","5">>, <<"t","r","u","e">>, <<"f","a","l","s","e">>, <<"n","u","l","l">>, <<"[","]">>, <<"[","\"","a","\"","]">>}

\* create_assignment declares a number, a boolean, a string and an array parameter
assignment_text(v) ==
  call_text(<<"c","r","e","a","t","e","_","a","s","s","i","g","n","m","e","n","t">>,
            and(member(<<"p","o","i","n","t","s","_","p","o","s","s","i","b","l","e">>, v),
                and(member(<<"p","u","b","l","i","s","h","e","d">>, v),
                    and(member(<<"n","a","m","e">>, v), member(<<"s","u","b","m","i","s","s","i","o","n","_","t","y","p","e","s">>, v)))))
\* create_quiz declares integer parameters
quiz_text(v) ==
  call_text(<<"c","r","e","a","t","e","_","q","u","i","z">>, and(member(<<"c","o","u","r","s","e","_","i","d">>, v), member(<<"t","i","m","e","_","l","i","m","i","t">>, v)))

CoercionTexts ==
  {assignment_text(v) : v \in CoercionLiterals} \cup {quiz_text(v) : v \in CoercionLiterals}

\* string values with angle brackets
TagLiterals ==
  {<<"\"","<","p",">","x","<","/","p",">","\"">>, <<"\""," "," ","<","b",">","x","<","/","b",">"," ","\"">>, <<"\"","<","P","L","A","C","E","H","O","L","D","E","R",">","\"">>, <<"\"","<","X","_","Y",">","\"">>, <<"\""," ","<","N","A","M","E",">"," ","\"">>, <<"\"","<","b","r",">","\"">>,
   <<"\"","<","/","\"">>, <<"\"","a","<","B",">","\"">>, <<"\"","<","A",">","b","\"">>, <<"\"","<","Y","O","U","R","_","N","A","M","E",">","<","/","b",">","\"">>, <<"\"","<",">","\"">>, <<"\"","<"," ",">","\"">>, <<"\"","<","b","r","/",">","\"">>,
   <<"\"","<","i","m","g"," ","s","r","c","=","'","x","'","/",">","\"">>, <<"\"","x","<","b","r","/",">","\"">>}

page_text(v) == call_text(<<"c","r","e","a","t","e","_","p","a","g","e">>, and(member(<<"t","i","t","l","e">>, <<"\"","T","\"">>), member(<<"b","o","d","y">>, v)))
n_flag == call_text(<<"u","p","d","a","t","e","_","m","o","d","u","l","e">>, and(member(<<"m","o","d","u","l","e","_","i","d">>, <<"2">>), member(<<"p","u","b","l","i","s","h","e","d">>, <<"\"","<","F","L","A","G",">","\"">>)))

TagTexts == {page_text(v) : v \in TagLiterals} \cup {n_flag}

n_content == call_text(<<"c","r","e","a","t","e","_","p","a","g","e">>, member(<<"c","o","n","t","e","n","t">>, <<"\"","X","\"">>))
n_content_body == call_text(<<"c","r","e","a","t","e","_","p","a","g","e">>, and(member(<<"c","o","n","t","e","n","t">>, <<"\"","X","\"">>), member(<<"b","o","d","y">>, <<"\"","Y","\"">>)))
n_body_content == call_text(<<"c","r","e","a","t","e","_","p","a","g","e">>, and(member(<<"b","o","d","y">>, <<"\"","Y","\"">>), member(<<"c","o","n","t","e","n","t">>, <<"\"","X","\"">>)))
n_subject_body == call_text(<<"c","r","e","a","t","e","_","a","n","n","o","u","n","c","e","m","e","n","t">>, and(member(<<"s","u","b","j","e","c","t">>, <<"\"","S","\"">>), member(<<"b","o","d","y">>, <<"\"","B","\"">>)))
n_subject_title == call_text(<<"c","r","e","a","t","e","_","a","n","n","o","u","n","c","e","m","e","n","t">>, and(member(<<"s","u","b","j","e","c","t">>, <<"\"","S","\"">>), member(<<"t","i","t","l","e">>, <<"\"","T","\"">>)))
n_content_message == call_text(<<"c","r","e","a","t","e","_","a","n","n","o","u","n","c","e","m","e","n","t">>, member(<<"c","o","n","t","e","n","t">>, <<"\"","X","\"">>))
n_content_discussion == call_text(<<"c","r","e","a","t","e","_","d","i","s","c","u","s","s","i","o","n">>, member(<<"c","o","n","t","e","n","t">>, <<"\"","X","\"">>))
n_is_published == call_text(<<"u","p","d","a","t","e","_","m","o","d","u","l","e">>, member(<<"i","s","_","p","u","b","l","i","s","h","e","d">>, <<"\"","Y","e","s","\"">>))
n_body_declared == call_text(<<"u","p","d","a","t","e","_","p","a","g","e">>, and(member(<<"b","o","d","y">>, <<"\"","B","\"">>), member(<<"i","s","_","p","u","b","l","i","s","h","e","d">>, <<"\"","n","o","\"">>)))
n_subject_undeclared == call_text(<<"u","p","d","a","t","e","_","m","o","d","u","l","e">>, member(<<"s","u","b","j","e","c","t">>, <<"\"","S","\"">>))


n_content_body_message == call_text(<<"c","r","e","a","t","e","_","a","n","n","o","u","n","c","e","m","e","n","t">>, and(member(<<"c","o","n","t","e","n","t">>, <<"\"","X","\"">>), member(<<"b","o","d","y">>, <<"\"","B","\"">>)))

AliasTexts ==
  {n_content_body_message, n_content, n_content_body, n_body_content, n_subject_body, n_subject_title,
   n_content_message, n_content_discussion, n_is_published, n_body_declared,
   n_subject_undeclared}

n_course_zero == call_text(<<"g","e","t","_","c","o","u","r","s","e">>, member(<<"c","o","u","r","s","e","_","i","d">>, <<"\"","0","\"">>))
n_course_five == call_text(<<"g","e","t","_","c","o","u","r","s","e">>, member(<<"c","o","u","r","s","e","_","i","d">>, <<"\"","5","\"">>))
n_no_course == call_text(<<"g","e","t","_","c","o","u","r","s","e">>, <<>>)
n_include_items == call_text(<<"l","i","s","t","_","m","o","d","u","l","e","s">>, member(<<"i","n","c","l","u","d","e","_","i","t","e","m","s">>, <<"t","r","u","e">>))

n_no_schema == call_text(<<"l","i","s","t","_","c","o","u","r","s","e","s">>, member(<<"e","n","r","o","l","l","m","e","n","t","_","t","y","p","e">>, <<"\"","t","e","a","c","h","e","r","\"">>))
n_course_undeclared == call_text(<<"l","i","s","t","_","c","o","u","r","s","e","s">>, member(<<"c","o","u","r","s","e","_","i","d">>, <<"3">>))

\* list_modules with include_items and an include array
modules_text(include_items, include) ==
  call_text(<<"l","i","s","t","_","m","o","d","u","l","e","s">>,
            and(member(<<"c","o","u","r","s","e","_","i","d">>, <<"1">>),
                and(member(<<"i","n","c","l","u","d","e","_","i","t","e","m","s">>, include_items), member(<<"i","n","c","l","u","d","e">>, include))))
IncludeItemsLiterals == {<<"t","r","u","e">>, <<"\"","t","r","u","e","\"">>, <<"\"","T","r","u","e","\"">>, <<"\"","1","\"">>, <<"1">>, <<"\"","y","e","s","\"">>, <<"f","a","l","s","e">>, <<"n","u","l","l">>, <<"0">>}
IncludeTexts ==
  {modules_text(v, <<"[","\"","x","\"","]">>) : v \in IncludeItemsLiterals} \cup
  {call_text(<<"l","i","s","t","_","m","o","d","u","l","e","s">>, and(member(<<"c","o","u","r","s","e","_","i","d">>, <<"1">>), member(<<"i","n","c","l","u","d","e","_","i","t","e","m","s">>, v))) :
     v \in IncludeItemsLiterals} \cup
  {call_text(<<"l","i","s","t","_","m","o","d","u","l","e","s">>, and(member(<<"c","o","u","r","s","e","_","i","d">>, <<"1">>), member(<<"i","n","c","l","u","d","e">>, <<"[","\"","x","\"","]">>))),
   call_text(<<"l","i","s","t","_","m","o","d","u","l","e","s">>, member(<<"c","o","u","r","s","e","_","i","d">>, <<"1">>))}

ContextTexts ==
  {n_course_zero, n_course_five, n_no_course, n_include_items, n_no_schema,
   n_course_undeclared} \cup IncludeTexts

\* the replies that exercise the normalization of a confirmed call
NormalizeTexts == CoercionTexts \cup TagTexts \cup AliasTexts \cup ContextTexts


\* replies without a tool call, with and without a phrase that claims an action
\* w_upper_claim is the text SUCCESSFULLY Added.
w_upper_claim == <<"S","U","C","C","E","S","S","F","U","L","L","Y"," ","A","d","d","e","d",".">>
\* w_contraction is the text I've done it
w_contraction == <<"I","'","v","e"," ","d","o","n","e"," ","i","t">>
\* w_spaced is the text It has  been up dated
w_spaced == <<"I","t"," ","h","a","s"," "," ","b","e","e","n"," ","u","p"," ","d","a","t","e","d">>
WarningReplies == {r_prose, r_claims_done, w_upper_claim, w_contraction, w_spaced,
                   e_claims_and_calls}
\* operator messages with and without a word that names a Canvas object
\* q_upper_page is the text Add a PAGE
q_upper_page == <<"A","d","d"," ","a"," ","P","A","G","E">>
\* q_hello is the text hello there
q_hello == <<"h","e","l","l","o"," ","t","h","e","r","e">>
\* q_list_modules is the text list the modules
q_list_modules == <<"l","i","s","t"," ","t","h","e"," ","m","o","d","u","l","e","s">>
WarningPrompts == {p_add_page, q_upper_page, q_hello, q_list_modules,
                   p_list_courses}

\* proposals that carry a course event
f_event_offer == call_text(<<"u","p","d","a","t","e","_","c","o","u","r","s","e">>, and(member(<<"c","o","u","r","s","e","_","i","d">>, <<"1">>), member(<<"e","v","e","n","t">>, <<"\"","o","f","f","e","r","\"">>)))
f_event_tag == call_text(<<"u","p","d","a","t","e","_","c","o","u","r","s","e">>, and(member(<<"c","o","u","r","s","e","_","i","d">>, <<"1">>), member(<<"e","v","e","n","t">>, <<"\"","<","E","V","E","N","T",">","\"">>)))
f_event_number == call_text(<<"u","p","d","a","t","e","_","c","o","u","r","s","e">>, and(member(<<"c","o","u","r","s","e","_","i","d">>, <<"1">>), member(<<"e","v","e","n","t">>, <<"5">>)))
f_event_elsewhere == call_text(<<"d","e","l","e","t","e","_","c","o","u","r","s","e">>, and(member(<<"c","o","u","r","s","e","_","i","d">>, <<"1">>), member(<<"e","v","e","n","t">>, <<"\"","a","r","c","h","i","v","e","\"">>)))

\* every reply text of the sessions
ReplyTexts ==
  ExtractTexts \cup NormalizeTexts \cup WarningReplies \cup
  {f_event_offer, f_event_tag, f_event_number, f_event_elsewhere}

\* the operator texts of the sessions that exercise the extractor
ExtractPrompts == {p_list_courses, p_add_page}

\* what a Canvas operation does when called: returns a non-empty list, an empty
\* list or a record, or raises
ExecOutcomes == {"list", "empty", "record", "raise"}
\* canvas_client.list_courses returns a list or raises
ListOutcomes == {"list", "empty", "raise"}

\* the course ids the sidebar offers
Courses == {PyInt(7)}

-----------------------------------------------------------------------------
(* Messages                                                                *)

user_message(prompt) == [role |-> "user", content |-> PyStr(prompt)]
assistant_message(content) == [role |-> "assistant", content |-> content]

\* main(): the welcome message appended when the history is empty
welcome_msg == assistant_message([kind |-> "welcome"])


\* a variant of confirmation_prompt that shows the tool without its parameters
confirmation_prompt_bare(tool_call) ==
  [kind |-> "confirmation_prompt",
   tool |-> tool_call.map[k_tool],
   parameters |-> PyDict(EmptyMap)]

\* f"I want to call '{tool}' with these parameters: {json.dumps(parameters)} ... (yes/no)"
confirmation_prompt(tool_call) ==
  [kind |-> "confirmation_prompt",
   tool |-> tool_call.map[k_tool],
   parameters |-> tool_call.map[k_parameters]]

cancel_msg == [kind |-> "cancelled"]

\* the rendering of a tool result
render_result(outcome) ==
  CASE outcome = "empty" -> [kind |-> "no_results"]
    [] outcome = "list" -> [kind |-> "success_list"]
    [] outcome = "record" -> [kind |-> "success"]
    [] outcome = "raise" -> [kind |-> "error", error |-> "tool"]

\* the rendering of the fallback's course list
render_courses(outcome) ==
  CASE outcome = "list" -> [kind |-> "courses"]
    [] outcome = "empty" -> [kind |-> "no_courses"]
    [] outcome = "raise" -> [kind |-> "error_listing_courses"]

-----------------------------------------------------------------------------
(* render_chat: one operator turn                                          *)

\* the record of a turn: the operator's text, the model's reply and the tool call
\* found in it (idle turns), the branch taken, and the session before the turn
this_turn(prompt, reply, found, branch) ==
  [prompt |-> PyStr(prompt), reply |-> reply, found |-> found, branch |-> branch,
   sent |-> None,
   before |-> [pending |-> pending_confirmation, messages |-> messages,
               calls |-> Len(calls), completions |-> completions,
               course |-> current_course_id]]

affirmations == {<<"y","e","s">>, <<"y">>, <<"c","o","n","f","i","r","m">>, <<"o","k">>}
rejections == {<<"n","o">>, <<"n">>, <<"c","a","n","c","e","l">>}

\* a variant of is_affirmation that strips the text first
is_affirmation_stripped(prompt) == lower(strip(prompt)) \in {<<"y","e","s">>, <<"y">>, <<"c","o","n","f","i","r","m">>, <<"o","k">>}

\* prompt.lower() in ['yes', 'y', 'confirm', 'ok']
is_affirmation(prompt) == lower(prompt) \in affirmations
\* prompt.lower() in ['no', 'n', 'cancel']
is_rejection(prompt) == lower(prompt) \in rejections

\* if st.session_state.pending_confirmation:
has_pending == pending_confirmation /= None

valid_events == {<<"o","f","f","e","r">>, <<"c","l","a","i","m">>, <<"c","o","n","c","l","u","d","e">>, <<"d","e","l","e","t","e">>, <<"u","n","d","e","l","e","t","e">>}

\* a variant of call_tool without the placeholder guard
call_tool_unguarded(function_name, filtered_args, outcome) ==
  IF /\ function_name = <<"u","p","d","a","t","e","_","c","o","u","r","s","e">>
     /\ <<"e","v","e","n","t">> \in DOMAIN filtered_args
     /\ ~(filtered_args[<<"e","v","e","n","t">>].t = "str"
          /\ filtered_args[<<"e","v","e","n","t">>].s \in {<<"o","f","f","e","r">>, <<"c","l","a","i","m">>, <<"c","o","n","c","l","u","d","e">>, <<"d","e","l","e","t","e">>, <<"u","n","d","e","l","e","t","e">>})
  THEN [branch |-> "invalid_event", called |-> FALSE,
        content |-> [kind |-> "invalid_event", event |-> filtered_args[<<"e","v","e","n","t">>]]]
  ELSE [branch |-> IF outcome = "raise" THEN "tool_raised" ELSE "executed",
        called |-> TRUE,
        call |-> [op |-> function_name, args |-> filtered_args, via |-> "confirmed"],
        content |-> render_result(outcome)]


\* a variant of call_tool without the update_course event check
call_tool_any_event(function_name, filtered_args, outcome) ==
  IF detect_placeholders(filtered_args)
  THEN [branch |-> "placeholder", called |-> FALSE,
        content |-> [kind |-> "error", error |-> "placeholder"]]
  ELSE [branch |-> IF outcome = "raise" THEN "tool_raised" ELSE "executed",
        called |-> TRUE,
        call |-> [op |-> function_name, args |-> filtered_args, via |-> "confirmed"],
        content |-> render_result(outcome)]

\* the call of the tool with the normalized arguments (lines 328-360): the branch
\* taken, the assistant message and the call when it is made
call_tool(function_name, filtered_args, outcome) ==
  IF detect_placeholders(filtered_args)
  THEN [branch |-> "placeholder", called |-> FALSE,
        content |-> [kind |-> "error", error |-> "placeholder"]]
  ELSE IF /\ function_name = <<"u","p","d","a","t","e","_","c","o","u","r","s","e">>
          /\ k_event \in DOMAIN filtered_args
          /\ ~(filtered_args[k_event].t = "str" /\ filtered_args[k_event].s \in valid_events)
  THEN [branch |-> "invalid_event", called |-> FALSE,
        content |-> [kind |-> "invalid_event", event |-> filtered_args[k_event]]]
  ELSE [branch |-> IF outcome = "raise" THEN "tool_raised" ELSE "executed",
        called |-> TRUE,
        call |-> [op |-> function_name, args |-> filtered_args, via |-> "confirmed"],
        content |-> render_result(outcome)]

\* the confirmed execution (the try block of the affirmation branch)
execute_pending(pending, course, outcome) ==
  IF ~(pending.function_name.t = "str" /\ pending.function_name.s \in tool_names)
  THEN [branch |-> "invalid_tool", called |-> FALSE,
        content |-> [kind |-> "invalid_tool", name |-> pending.function_name]]
  ELSE IF pending.arguments.t /= "dict"
  THEN [branch |-> "arguments_error", called |-> FALSE,
        content |-> [kind |-> "error", error |-> "arguments"]]
  ELSE call_tool(pending.function_name.s,
                 normalize(pending.arguments.map,
                           find_tool(pending.function_name.s).properties, course),
                 outcome)

\* a variant of confirmed that calls the tool a second time
confirmed_twice(prompt, x) ==
  /\ messages' = messages \o <<user_message(prompt), assistant_message(x.content)>>
  /\ calls' = IF x.called THEN calls \o <<x.call, x.call>> ELSE calls
  /\ turn' = this_turn(prompt, None, None, x.branch)
  /\ pending_confirmation' = None
  /\ exchanges' = exchanges + 1
  /\ UNCHANGED <<current_course_id, completions>>

\* a variant of confirmed that keeps the pending action when the tool raises
confirmed_keeps_failed(prompt, x) ==
  /\ messages' = messages \o <<user_message(prompt), assistant_message(x.content)>>
  /\ calls' = IF x.called THEN Append(calls, x.call) ELSE calls
  /\ turn' = this_turn(prompt, None, None, x.branch)
  /\ pending_confirmation' = IF x.branch = "tool_raised" THEN pending_confirmation ELSE None
  /\ exchanges' = exchanges + 1
  /\ UNCHANGED <<current_course_id, completions>>

\* a variant of confirmed that records no message when the tool was not called
confirmed_silent_failure(prompt, x) ==
  /\ messages' = IF x.called
                 THEN messages \o <<user_message(prompt), assistant_message(x.content)>>
                 ELSE Append(messages, user_message(prompt))
  /\ calls' = IF x.called THEN Append(calls, x.call) ELSE calls
  /\ turn' = this_turn(prompt, None, None, x.branch)
  /\ pending_confirmation' = None
  /\ exchanges' = exchanges + 1
  /\ UNCHANGED <<current_course_id, completions>>

\* a variant of confirmed that leaves the pending action in the slot
confirmed_stays(prompt, x) ==
  /\ messages' = messages \o <<user_message(prompt), assistant_message(x.content)>>
  /\ calls' = IF x.called THEN Append(calls, x.call) ELSE calls
  /\ turn' = this_turn(prompt, None, None, x.branch)
  /\ exchanges' = exchanges + 1
  /\ UNCHANGED <<pending_confirmation, current_course_id, completions>>

\* the session after the confirmed execution x
confirmed(prompt, x) ==
  /\ messages' = messages \o <<user_message(prompt), assistant_message(x.content)>>
  /\ calls' = IF x.called THEN Append(calls, x.call) ELSE calls
  /\ turn' = this_turn(prompt, None, None, x.branch)
  /\ pending_confirmation' = None
  /\ exchanges' = exchanges + 1
  /\ UNCHANGED <<current_course_id, completions>>

\* pending action, operator affirms
ConfirmTurn(prompt, outcome) ==
  /\ exchanges < MaxExchanges
  /\ has_pending
  /\ is_affirmation(prompt)
  /\ confirmed(prompt, execute_pending(pending_confirmation, current_course_id, outcome))

\* a variant of RejectTurn that keeps the pending action
RejectTurn_keeps(prompt) ==
  /\ exchanges < MaxExchanges
  /\ pending_confirmation /= None
  /\ lower(prompt) \in {<<"n","o">>, <<"n">>, <<"c","a","n","c","e","l">>}
  /\ messages' = messages \o <<user_message(prompt), assistant_message([kind |-> "cancelled"])>>
  /\ turn' = this_turn(prompt, None, None, "cancelled")
  /\ exchanges' = exchanges + 1
  /\ UNCHANGED <<pending_confirmation, current_course_id, calls, completions>>

\* pending action, operator rejects
RejectTurn(prompt) ==
  /\ exchanges < MaxExchanges
  /\ has_pending
  /\ ~is_affirmation(prompt)
  /\ is_rejection(prompt)
  /\ messages' = messages \o <<user_message(prompt), assistant_message(cancel_msg)>>
  /\ pending_confirmation' = None
  /\ turn' = this_turn(prompt, None, None, "cancelled")
  /\ exchanges' = exchanges + 1
  /\ UNCHANGED <<current_course_id, calls, completions>>

\* a variant of AmbiguousTurn that appends the operator's message to the history
AmbiguousTurn_recorded(prompt) ==
  /\ exchanges < MaxExchanges
  /\ pending_confirmation /= None
  /\ lower(prompt) \notin {<<"y","e","s">>, <<"y">>, <<"c","o","n","f","i","r","m">>, <<"o","k">>, <<"n","o">>, <<"n">>, <<"c","a","n","c","e","l">>}
  /\ messages' = Append(messages, user_message(prompt))
  /\ turn' = this_turn(prompt, None, None, "ambiguous")
  /\ exchanges' = exchanges + 1
  /\ UNCHANGED <<pending_confirmation, current_course_id, calls, completions>>

\* pending action, any other text: a warning is shown and nothing is stored
AmbiguousTurn(prompt) ==
  /\ has_pending
  /\ ~is_affirmation(prompt)
  /\ ~is_rejection(prompt)
  /\ turn' = this_turn(prompt, None, None, "ambiguous")
  /\ UNCHANGED <<messages, pending_confirmation, current_course_id, calls, completions,
                 exchanges>>

action_phrases ==
  {<<"h","a","s"," ","b","e","e","n">>, <<"s","u","c","c","e","s","s","f","u","l","l","y">>, <<"c","r","e","a","t","e","d">>, <<"u","p","d","a","t","e","d">>, <<"a","d","d","e","d">>, <<"d","e","l","e","t","e","d">>, <<"i"," ","h","a","v","e">>, <<"i"," ","w","i","l","l">>,
   <<"i","'","v","e">>}
context_words == {<<"c","o","u","r","s","e">>, <<"p","a","g","e">>, <<"m","o","d","u","l","e">>, <<"a","n","n","o","u","n","c","e","m","e","n","t">>}


\* a variant of claims_action that looks at the model's reply only
claims_action_reply_only(prompt, response_text) ==
  \E phrase \in action_phrases : Contains(phrase, lower(response_text))

\* the model claims an action and the operator's message names a Canvas object
claims_action(prompt, response_text) ==
  /\ \E phrase \in action_phrases : Contains(phrase, lower(response_text))
  /\ \E word \in context_words : Contains(word, lower(prompt))

\* a variant of asks_course_list that compares the text as typed
asks_course_list_cased(prompt) == Contains(<<"l","i","s","t">>, prompt) /\ Contains(<<"c","o","u","r","s","e">>, prompt)

\* 'list' in prompt.lower() and 'course' in prompt.lower()
asks_course_list(prompt) ==
  Contains(<<"l","i","s","t">>, lower(prompt)) /\ Contains(<<"c","o","u","r","s","e">>, lower(prompt))

\* the fallback's call: list_courses(enrollment_type='teacher', enrollment_state='active')
fallback_call ==
  [op |-> <<"l","i","s","t","_","c","o","u","r","s","e","s">>,
   args |-> (<<"e","n","r","o","l","l","m","e","n","t","_","t","y","p","e">> :> PyStr(<<"t","e","a","c","h","e","r">>) @@ <<"e","n","r","o","l","l","m","e","n","t","_","s","t","a","t","e">> :> PyStr(<<"a","c","t","i","v","e">>)),
   via |-> "fallback"]

\* the tool call found in each reply the model gives
found_in == [response_text \in ReplyTexts |-> extract_tool_call(response_text)]

\* a variant of process_reply that stores the parsed object itself
process_reply_whole(prompt, response_text, found, outcome) ==
  [found |-> found,
   proposal |-> found,
   fallback |-> found = None /\ Contains(<<"l","i","s","t">>, lower(prompt)) /\ Contains(<<"c","o","u","r","s","e">>, lower(prompt)),
   branch |-> IF found /= None THEN "proposed"
              ELSE IF Contains(<<"l","i","s","t">>, lower(prompt)) /\ Contains(<<"c","o","u","r","s","e">>, lower(prompt))
              THEN "fallback" ELSE "reply",
   content |-> IF found /= None THEN confirmation_prompt(found)
               ELSE IF Contains(<<"l","i","s","t">>, lower(prompt)) /\ Contains(<<"c","o","u","r","s","e">>, lower(prompt))
               THEN render_courses(outcome)
               ELSE [kind |-> "reply", text |-> PyStr(response_text), warning |-> FALSE]]

\* a variant of process_reply that runs the course-list fallback before looking at
\* the extractor's result
process_reply_fallback_first(prompt, response_text, found, outcome) ==
  [found |-> found,
   proposal |-> IF found /= None
                THEN [function_name |-> found.map[<<"t","o","o","l">>], arguments |-> found.map[<<"p","a","r","a","m","e","t","e","r","s">>]]
                ELSE None,
   fallback |-> Contains(<<"l","i","s","t">>, lower(prompt)) /\ Contains(<<"c","o","u","r","s","e">>, lower(prompt)),
   branch |-> IF Contains(<<"l","i","s","t">>, lower(prompt)) /\ Contains(<<"c","o","u","r","s","e">>, lower(prompt))
              THEN "fallback"
              ELSE IF found /= None THEN "proposed" ELSE "reply",
   content |-> IF Contains(<<"l","i","s","t">>, lower(prompt)) /\ Contains(<<"c","o","u","r","s","e">>, lower(prompt))
               THEN render_courses(outcome)
               ELSE IF found /= None THEN confirmation_prompt(found)
               ELSE [kind |-> "reply", text |-> PyStr(response_text), warning |-> FALSE]]

\* the idle branch after the provider's reply, found being the extractor's result:
\* the pending action to store, the assistant message, whether the fallback runs
process_reply(prompt, response_text, found, outcome) ==
  LET tool_call_found == found /= None
      warned == ~tool_call_found /\ claims_action(prompt, response_text)
      fallback == ~tool_call_found /\ asks_course_list(prompt)
  IN [found |-> found,
      proposal |-> IF tool_call_found
                   THEN [function_name |-> found.map[k_tool],
                         arguments |-> found.map[k_parameters]]
                   ELSE None,
      fallback |-> fallback,
      branch |-> IF tool_call_found THEN "proposed"
                 ELSE IF fallback THEN "fallback"
                 ELSE IF warned THEN "reply_warned" ELSE "reply",
      content |-> IF tool_call_found THEN confirmation_prompt(found)
                  ELSE IF fallback THEN render_courses(outcome)
                  ELSE [kind |-> "reply", text |-> PyStr(response_text), warning |-> warned]]

\* a variant of replied that calls the proposed tool at once
replied_executes(prompt, response_text, x) ==
  /\ messages' = messages \o <<user_message(prompt), assistant_message(x.content)>>
  /\ calls' = IF x.proposal /= None
              THEN Append(calls, [op |-> x.proposal.function_name.s,
                                  args |-> << >>, via |-> "confirmed"])
              ELSE IF x.fallback THEN Append(calls, fallback_call) ELSE calls
  /\ pending_confirmation' = IF x.proposal /= None THEN x.proposal ELSE pending_confirmation
  /\ turn' = this_turn(prompt, PyStr(response_text), x.found, x.branch)
  /\ completions' = completions + 1
  /\ exchanges' = exchanges + 1
  /\ UNCHANGED current_course_id

\* a variant of chat_messages that takes the first ten entries
chat_messages_first(history) ==
  SubSeq(history, 1, IF Len(history) > 10 THEN 10 ELSE Len(history))

\* chat_messages: the role and content of st.session_state.messages[-10:]
chat_messages(history) ==
  SubSeq(history, IF Len(history) > 10 THEN Len(history) - 9 ELSE 1, Len(history))

\* the session after the idle turn's outcome x; the turn record keeps the messages
\* given to groq_service.chat, taken after the operator's message was appended
replied(prompt, response_text, x) ==
  /\ messages' = messages \o <<user_message(prompt), assistant_message(x.content)>>
  /\ calls' = IF x.fallback THEN Append(calls, fallback_call) ELSE calls
  /\ pending_confirmation' = IF x.proposal /= None THEN x.proposal ELSE pending_confirmation
  /\ turn' = [this_turn(prompt, PyStr(response_text), x.found, x.branch)
                EXCEPT !.sent = chat_messages(Append(messages, user_message(prompt)))]
  /\ completions' = completions + 1
  /\ exchanges' = exchanges + 1
  /\ UNCHANGED current_course_id


\* a variant of IdleTurn that sends the message to the model whether or not an action
\* is pending
IdleTurn_unguarded(prompt, response_text, outcome) ==
  /\ exchanges < MaxExchanges
  /\ replied(prompt, response_text,
             process_reply(prompt, response_text, found_in[response_text], outcome))

\* no pending action: the message goes to the model
IdleTurn(prompt, response_text, outcome) ==
  /\ exchanges < MaxExchanges
  /\ ~has_pending
  /\ replied(prompt, response_text,
             process_reply(prompt, response_text, found_in[response_text], outcome))

-----------------------------------------------------------------------------
(* render_sidebar                                                          *)

\* the course selector sets the session's current course
SelectCourse(course) ==
  /\ course /= current_course_id
  /\ current_course_id' = course
  /\ UNCHANGED <<messages, pending_confirmation, calls, completions, turn, exchanges>>

no_turn == [prompt |-> None, reply |-> None, found |-> None, branch |-> "none",
            sent |-> None,
            before |-> [pending |-> None, messages |-> <<>>, calls |-> 0, completions |-> 0,
                        course |-> None]]

\* Clear Chat History, then the rerun in which main() appends the welcome message
ClearChat ==
  /\ messages' = <<welcome_msg>>
  /\ pending_confirmation' = None
  /\ turn' = no_turn
  /\ UNCHANGED <<current_course_id, calls, completions, exchanges>>

-----------------------------------------------------------------------------

\* the session after initialize_session() and the first run of main()
Init ==
  /\ messages = <<welcome_msg>>
  /\ pending_confirmation = None
  /\ current_course_id = None
  /\ calls = <<>>
  /\ completions = 0
  /\ turn = no_turn
  /\ exchanges = 0

Next ==
  \/ \E prompt \in Prompts, outcome \in ExecOutcomes : ConfirmTurn(prompt, outcome)
  \/ \E prompt \in Prompts : RejectTurn(prompt)
  \/ \E prompt \in Prompts : AmbiguousTurn(prompt)
  \/ \E prompt \in Prompts, response_text \in Replies, outcome \in ListOutcomes :
       IdleTurn(prompt, response_text, outcome)
  \/ \E course \in Courses \cup {None} : SelectCourse(course)
  \/ ClearChat

Spec == Init /\ [][Next]_vars

\* sessions of idle turns over the larger set of replies
ExtractNext ==
  \E prompt \in ExtractPrompts, response_text \in ExtractTexts, outcome \in ListOutcomes :
    IdleTurn(prompt, response_text, outcome)

ExtractSpec == Init /\ [][ExtractNext]_vars


\* the replies whose proposal fails when confirmed, the provider's error text, and a
\* proposal that can run
FailureReplies == {r_unknown_tool, r_null_parameters, r_placeholder, r_bad_event,
                   r_list_courses, r_prose, e_provider_error,
                   f_event_offer, f_event_tag, f_event_number, f_event_elsewhere}


\* sessions of idle turns over replies that claim an action or do not
WarningNext ==
  \/ \E prompt \in WarningPrompts, response_text \in WarningReplies :
       IdleTurn(prompt, response_text, "list")
  \/ ClearChat

WarningSpec == Init /\ [][WarningNext]_vars


\* sessions of proposals, answers and chat clears
PendingPrompts == {p_Yes, p_no, p_add_page}
PendingReplies == {r_create_page, r_list_courses, r_unknown_tool, r_prose}

PendingNext ==
  \/ \E prompt \in PendingPrompts, outcome \in {"list", "raise"} : ConfirmTurn(prompt, outcome)
  \/ \E prompt \in PendingPrompts : RejectTurn(prompt)
  \/ \E prompt \in PendingPrompts : AmbiguousTurn(prompt)
  \/ \E prompt \in PendingPrompts, response_text \in PendingReplies :
       IdleTurn(prompt, response_text, "list")
  \/ ClearChat

PendingSpec == Init /\ [][PendingNext]_vars

\* sessions of proposals and affirmations over these replies
FailureNext ==
  \/ \E prompt \in ExtractPrompts, response_text \in FailureReplies, outcome \in ListOutcomes :
       IdleTurn(prompt, response_text, outcome)
  \/ \E outcome \in ExecOutcomes : ConfirmTurn(p_Yes, outcome)

FailureSpec == Init /\ [][FailureNext]_vars


\* sessions in which a call is proposed and confirmed, with and without a course
\* selected in the sidebar
NormalizeNext ==
  \/ \E response_text \in NormalizeTexts : IdleTurn(p_add_page, response_text, "list")
  \/ ConfirmTurn(p_Yes, "record")
  \/ \E course \in Courses \cup {None} : SelectCourse(course)

NormalizeSpec == Init /\ [][NormalizeNext]_vars


\* the longest history, in turns, that a session starts with
MaxHistory == 6

\* the operator's text and the model's reply in the i-th turn of such a history:
\* conversation without tool calls
history_prompt(i) == IF i % 2 = 1 THEN p_add_page ELSE p_Yes
history_reply(i) == <<r_prose, r_claims_done, e_provider_error>>[(i % 3) + 1]
\* the outcome of that idle turn
history_outcome(i) ==
  process_reply(history_prompt(i), history_reply(i), found_in[history_reply(i)], "list")

RECURSIVE history(_)
\* st.session_state.messages after k such turns
history(k) ==
  IF k = 0 THEN <<welcome_msg>>
  ELSE history(k - 1) \o <<user_message(history_prompt(k)),
                           assistant_message(history_outcome(k).content)>>

\* the record of the k-th turn of the history
history_turn(k) ==
  IF k = 0 THEN no_turn
  ELSE [prompt |-> PyStr(history_prompt(k)), reply |-> PyStr(history_reply(k)),
        found |-> None, branch |-> history_outcome(k).branch,
        sent |-> chat_messages(Append(history(k - 1), user_message(history_prompt(k)))),
        before |-> [pending |-> None, messages |-> history(k - 1), calls |-> 0,
                    completions |-> k - 1, course |-> None]]

\* the session after k turns of conversation; exchanges counts the turns from there
WindowInit ==
  \E k \in 0..MaxHistory :
    /\ messages = history(k)
    /\ pending_confirmation = None
    /\ current_course_id = None
    /\ calls = <<>>
    /\ completions = k
    /\ turn = history_turn(k)
    /\ exchanges = 0

WindowPrompts == {p_add_page, p_list_courses}
WindowReplies == {r_prose, r_list_courses}

WindowNext ==
  \/ \E prompt \in WindowPrompts, response_text \in WindowReplies, outcome \in ListOutcomes :
       IdleTurn(prompt, response_text, outcome)
  \/ \E outcome \in ExecOutcomes : ConfirmTurn(p_Yes, outcome)
  \/ RejectTurn(p_no)
  \/ AmbiguousTurn(p_yes_space)

\* sessions that go on after a history of conversation
WindowSpec == WindowInit /\ [][WindowNext]_vars

\* the session in which the first turn, prompt, was answered with response_text and
\* its tool call was stored; exchanges counts the turns from there
awaiting_session(prompt, response_text, x) ==
  /\ messages = <<welcome_msg, user_message(prompt), assistant_message(x.content)>>
  /\ pending_confirmation = x.proposal
  /\ current_course_id = None
  /\ calls = <<>>
  /\ completions = 1
  /\ turn = [prompt |-> PyStr(prompt), reply |-> PyStr(response_text), found |-> x.found,
             branch |-> x.branch,
             sent |-> <<welcome_msg, user_message(prompt)>>,
             before |-> [pending |-> None, messages |-> <<welcome_msg>>, calls |-> 0,
                         completions |-> 0, course |-> None]]
  /\ exchanges = 0

CyclePrompts == {p_Yes, p_no, p_yes_space}
CycleReplies == {e_two_calls, r_unknown_tool, r_prose}
CycleProposals == {e_two_calls, r_unknown_tool, r_null_parameters}

CycleInit ==
  \E response_text \in CycleProposals :
    awaiting_session(p_add_page, response_text,
                     process_reply(p_add_page, response_text, found_in[response_text], "list"))

\* the handling of one operator text
Turn(prompt) ==
  \/ \E outcome \in ExecOutcomes : ConfirmTurn(prompt, outcome)
  \/ RejectTurn(prompt)
  \/ AmbiguousTurn(prompt)
  \/ \E response_text \in CycleReplies, outcome \in ListOutcomes :
       IdleTurn(prompt, response_text, outcome)

CycleNext == \E prompt \in CyclePrompts : Turn(prompt)

\* sessions that start with an action pending
CycleSpec == CycleInit /\ [][CycleNext]_vars

-----------------------------------------------------------------------------
(* Properties.  They read the record of the last turn: turn.before is the   *)
(* session as the turn found it, so a state predicate can compare the      *)
(* session after a turn with the session before it.                        *)

\* a turn has been handled and the history has not been cleared since
turn_handled == turn.branch /= "none"
\* the turn was handled with an action pending (AwaitingConfirmation)
was_awaiting == turn_handled /\ turn.before.pending /= None
\* the turn was handled with no action pending (Idle)
was_idle == turn_handled /\ turn.before.pending = None
\* the Canvas invocations made by the last turn
turn_calls == SubSeq(calls, turn.before.calls + 1, Len(calls))
\* the messages appended by the last turn
turn_messages == SubSeq(messages, Len(turn.before.messages) + 1, Len(messages))
\* the history still starts with the messages the turn found
history_kept ==
  /\ Len(messages) >= Len(turn.before.messages)
  /\ SubSeq(messages, 1, Len(turn.before.messages)) = turn.before.messages

AffirmationTokens == {<<"y","e","s">>, <<"y">>, <<"c","o","n","f","i","r","m">>, <<"o","k">>}
RejectionTokens == {<<"n","o">>, <<"n">>, <<"c","a","n","c","e","l">>}
affirmed_turn == was_awaiting /\ lower(turn.prompt.s) \in AffirmationTokens
rejected_turn == was_awaiting /\ lower(turn.prompt.s) \in RejectionTokens
ambiguous_turn ==
  was_awaiting /\ lower(turn.prompt.s) \notin (AffirmationTokens \cup RejectionTokens)

\* the action the extractor's result proposes
proposal_of(found) ==
  [function_name |-> found.map[k_tool], arguments |-> found.map[k_parameters]]

\* C1: a tool is invoked for a proposed action only in a turn handled while that
\* action was pending and whose text is an affirmation; an idle turn in which the
\* extractor finds a call invokes nothing and only stores the call as pending;
\* any other invocation is the fixed list_courses fallback of an idle turn.
C1_TwoPhase ==
  turn_handled =>
    /\ \A i \in 1..Len(turn_calls) :
         \/ /\ turn_calls[i].via = "confirmed"
            /\ affirmed_turn
            /\ turn.before.pending.function_name = PyStr(turn_calls[i].op)
         \/ /\ turn_calls[i] = fallback_call
            /\ was_idle
    /\ (was_idle /\ turn.found /= None) =>
         /\ turn_calls = <<>>
         /\ pending_confirmation = proposal_of(turn.found)

\* C1 witness: an idle turn found a call and stored it without invoking anything,
\* the operator's message asking for the course list
C1_Witness ==
  /\ was_idle /\ turn.found /= None /\ turn.prompt = PyStr(p_list_courses)
  /\ pending_confirmation /= None /\ calls = <<>>

\* the confirmed action can be executed: its name is in the catalog, its parameters
\* are an object, and the normalized arguments pass the placeholder guard and the
\* update_course event check
executable(pending, course) ==
  /\ pending.function_name.t = "str" /\ pending.function_name.s \in tool_names
  /\ pending.arguments.t = "dict"
  /\ execute_pending(pending, course, "list").called

\* C2 as stated: after a proposal and an affirmation the session is idle and exactly
\* one tool invocation was made
C2_Original ==
  affirmed_turn => pending_confirmation = None /\ Len(turn_calls) = 1

\* C2 amended: after a proposal and an affirmation the session is idle; exactly one
\* tool invocation was made, for the pending action, when the action can be
\* executed, and none otherwise; the proposing turn itself invokes nothing.
C2_ConfirmExecutesOnce ==
  /\ affirmed_turn =>
       /\ pending_confirmation = None
       /\ IF executable(turn.before.pending, turn.before.course)
          THEN /\ Len(turn_calls) = 1
               /\ PyStr(turn_calls[1].op) = turn.before.pending.function_name
          ELSE turn_calls = <<>>
  /\ (was_idle /\ turn.found /= None) => turn_calls = <<>>

\* C2 witness: the proposal of create_page was affirmed with "Yes" and executed once
C2_Witness ==
  /\ affirmed_turn /\ turn.prompt = PyStr(p_Yes)
  /\ pending_confirmation = None
  /\ Len(calls) = 1 /\ calls[1].op = <<"c","r","e","a","t","e","_","p","a","g","e">>

\* C3: a rejection of a pending action discards it, invokes no tool, calls the model
\* zero times and appends the operator's turn and a cancellation acknowledgement.
C3_Reject ==
  rejected_turn =>
    /\ pending_confirmation = None
    /\ turn_calls = <<>>
    /\ completions = turn.before.completions
    /\ history_kept
    /\ turn_messages = <<user_message(turn.prompt.s), assistant_message([kind |-> "cancelled"])>>

C3_Witness ==
  /\ rejected_turn /\ turn.prompt = PyStr(p_no)
  /\ pending_confirmation = None /\ calls = <<>>

\* C4: a turn that is none of the seven tokens leaves the pending action as it was
\* and invokes no tool, however many such turns follow one another.
C4_AmbiguousKeepsPending ==
  ambiguous_turn =>
    /\ pending_confirmation = turn.before.pending
    /\ turn_calls = <<>>

\* C4 witness: "yes " (trailing space) was answered to a pending action that is
\* still pending
C4_Witness ==
  /\ ambiguous_turn /\ turn.prompt = PyStr(p_yes_space)
  /\ pending_confirmation /= None /\ pending_confirmation = turn.before.pending

\* C5: an affirmed turn leaves the session idle whatever the outcome (the tool
\* returns or raises, the arguments or the guard fail, the name is unknown), and a
\* tool is invoked for a proposed action only by the turn that consumes the pending
\* slot holding it, so a failed action runs again only after a new proposal.
C5_ConfirmClearsAlways ==
  /\ affirmed_turn =>
       /\ pending_confirmation = None
       /\ turn.branch \in {"executed", "tool_raised", "arguments_error", "placeholder",
                           "invalid_event", "invalid_tool"}
  /\ turn_handled =>
       /\ Len(turn_calls) <= 1
       /\ \A i \in 1..Len(turn_calls) :
            turn_calls[i].via = "confirmed" =>
              /\ affirmed_turn
              /\ turn.before.pending.function_name = PyStr(turn_calls[i].op)
              /\ pending_confirmation = None

\* C5 witness: the confirmed tool raised and the session is idle
C5_Witness ==
  /\ affirmed_turn /\ turn.branch = "tool_raised" /\ pending_confirmation = None

\* C6 as stated: an ambiguous turn is appended to the history as an operator message
C6_Original ==
  ambiguous_turn =>
    /\ history_kept
    /\ turn_messages = <<user_message(turn.prompt.s)>>

\* C6 amended: an ambiguous turn is not recorded: the history and the pending action
\* are both as the turn found them.
C6_AmbiguousNotRecorded ==
  ambiguous_turn =>
    /\ messages = turn.before.messages
    /\ pending_confirmation = turn.before.pending

C6_Witness ==
  /\ ambiguous_turn /\ turn.prompt = PyStr(p_add_page)
  /\ messages = turn.before.messages /\ Len(messages) = 3

\* C7: the pending slot holds nothing or exactly one proposed action, an action
\* name with an argument value; a turn that stores a proposal leaves exactly the
\* proposal of that turn in the slot.
C7_OnePending ==
  /\ \/ pending_confirmation = None
     \/ DOMAIN pending_confirmation = {"function_name", "arguments"}
  /\ (was_idle /\ turn.found /= None) => pending_confirmation = proposal_of(turn.found)
  /\ (was_idle /\ turn.found = None) => pending_confirmation = None

C7_Witness ==
  /\ was_idle /\ turn.found /= None
  /\ pending_confirmation = [function_name |-> PyStr(<<"d","r","o","p","_","a","l","l">>), arguments |-> PyDict(EmptyMap)]

\* the arguments without the keys the normalizer drops as undeclared: a key that is
\* not declared, is not include_items and is not renamed to a declared parameter
without_undeclared(raw, declared) ==
  [k \in {key \in DOMAIN raw :
            \/ key \in declared
            \/ key = k_include_items
            \/ \E i \in 1..Len(param_aliases) :
                 param_aliases[i][1] = key /\ param_aliases[i][2] \in declared} |-> raw[k]]

\* the outcome of confirming pending and that of confirming it without its
\* undeclared keys
same_without_undeclared(pending, course) ==
  execute_pending(pending, course, "list") =
    execute_pending(
      [pending EXCEPT !.arguments =
         PyDict(without_undeclared(pending.arguments.map,
                                   DOMAIN find_tool(pending.function_name.s).properties))],
      course, "list")

\* C8: every key of the arguments of a confirmed invocation is a parameter the
\* tool's schema declares; undeclared keys are dropped, and the turn's outcome is
\* the one it has without them.
C8_ClosedWorld ==
  /\ \A i \in 1..Len(calls) :
       calls[i].via = "confirmed" =>
         DOMAIN calls[i].args \subseteq DOMAIN find_tool(calls[i].op).properties
  /\ (/\ affirmed_turn
      /\ turn.before.pending.function_name.t = "str"
      /\ turn.before.pending.function_name.s \in tool_names
      /\ turn.before.pending.arguments.t = "dict") =>
       /\ same_without_undeclared(turn.before.pending, turn.before.course)
       /\ (turn_calls = <<>>) =
            ~execute_pending(turn.before.pending, turn.before.course, "list").called

\* C8 witness: create_page was invoked for a proposal that carried the undeclared
\* key note (a bare tag) and the alias content
C8_Witness ==
  /\ affirmed_turn
  /\ turn.before.pending.arguments.t = "dict"
  /\ <<"n","o","t","e">> \in DOMAIN turn.before.pending.arguments.map
  /\ Len(turn_calls) = 1
  /\ DOMAIN turn_calls[1].args = {<<"t","i","t","l","e">>, <<"b","o","d","y">>}

\* a string holds a template marker (in any case) or is a bare single tag
TemplateMarkers == {<<"<","Y","O","U","R","_">>, <<"<","H","T","M","L","_">>, <<"<","I","N","S","E","R","T","_">>, <<"<","C","O","U","R","S","E","_">>, <<"<","P","A","G","E","_">>, <<"<","M","O","D","U","L","E","_">>}
placeholder_like(s) ==
  \/ \E m \in TemplateMarkers : Contains(m, upper(s))
  \/ /\ strip(s) /= <<>>
     /\ Head(strip(s)) = "<" /\ strip(s)[Len(strip(s))] = ">"
     /\ ~Contains(<<"<","/">>, strip(s))

\* C9: no string argument of a confirmed invocation holds a template marker or is a
\* bare single tag; when the guard rejects the final mapping the turn invokes
\* nothing and records a failure message.
C9_NoPlaceholders ==
  /\ \A i \in 1..Len(calls) :
       calls[i].via = "confirmed" =>
         \A k \in DOMAIN calls[i].args :
           calls[i].args[k].t = "str" => ~placeholder_like(calls[i].args[k].s)
  /\ turn.branch = "placeholder" =>
       /\ turn_calls = <<>>
       /\ history_kept
       /\ turn_messages = <<user_message(turn.prompt.s),
                            assistant_message([kind |-> "error", error |-> "placeholder"])>>
  /\ (/\ affirmed_turn
      /\ executable(turn.before.pending, turn.before.course)) =>
       turn.branch \in {"executed", "tool_raised"}

\* C9 witness: get_course with course_id "<COURSE_ID>" was affirmed and rejected by
\* the guard
C9_Witness ==
  /\ affirmed_turn /\ turn.branch = "placeholder"
  /\ turn.before.pending.function_name = PyStr(<<"g","e","t","_","c","o","u","r","s","e">>)
  /\ calls = <<>>

\* C10: an idle turn whose message holds "list" and "course" in any case and whose
\* reply yields no tool call invokes list_courses once, with enrollment_type
\* "teacher" and enrollment_state "active", and records a reply built from the
\* result or the error, whatever the model's text.
C10_Fallback ==
  (/\ was_idle
   /\ turn.found = None
   /\ Contains(<<"l","i","s","t">>, lower(turn.prompt.s))
   /\ Contains(<<"c","o","u","r","s","e">>, lower(turn.prompt.s))) =>
    /\ Len(turn_calls) = 1
    /\ turn_calls[1].op = <<"l","i","s","t","_","c","o","u","r","s","e","s">>
    /\ turn_calls[1].args = (<<"e","n","r","o","l","l","m","e","n","t","_","t","y","p","e">> :> PyStr(<<"t","e","a","c","h","e","r">>) @@
                             <<"e","n","r","o","l","l","m","e","n","t","_","s","t","a","t","e">> :> PyStr(<<"a","c","t","i","v","e">>))
    /\ history_kept
    /\ Len(turn_messages) = 2
    /\ turn_messages[2].role = "assistant"
    /\ turn_messages[2].content.kind \in {"courses", "no_courses", "error_listing_courses"}

\* C10 witness: "List my courses" was answered by the model with a claim of success
\* and the course list was fetched all the same
C10_Witness ==
  /\ was_idle /\ turn.prompt = PyStr(p_list_courses) /\ turn.reply = PyStr(r_claims_done)
  /\ Len(calls) = 1 /\ calls[1] = fallback_call
  /\ messages[Len(messages)].content.kind = "courses"

\* C11: when the extractor finds a call in an idle turn no further heuristic runs:
\* no warning is appended, list_courses is not called even when the operator's
\* message holds "list" and "course", and the recorded reply is exactly the
\* confirmation prompt naming the action and its parameters.
C11_NoHeuristicsAfterCall ==
  (was_idle /\ turn.found /= None) =>
    /\ turn_calls = <<>>
    /\ history_kept
    /\ turn_messages =
         <<user_message(turn.prompt.s),
           assistant_message([kind |-> "confirmation_prompt",
                              tool |-> turn.found.map[<<"t","o","o","l">>],
                              parameters |-> turn.found.map[<<"p","a","r","a","m","e","t","e","r","s">>]])>>

\* C11 witness: "List my courses" was answered with a claim of success followed by
\* a call of create_page; the call is pending and nothing was invoked
C11_Witness ==
  /\ was_idle /\ turn.prompt = PyStr(p_list_courses) /\ turn.reply = PyStr(e_claims_and_calls)
  /\ calls = <<>>
  /\ pending_confirmation /= None
  /\ messages[Len(messages)].content.kind = "confirmation_prompt"

\* the ways a confirmed execution fails, and the assistant messages that report a
\* failure
FailedBranches == {"invalid_tool", "arguments_error", "placeholder", "invalid_event", "tool_raised"}
FailureKinds == {"invalid_tool", "error", "invalid_event", "error_listing_courses"}

C13_NoStuckState ==
  /\ \/ pending_confirmation = None
     \/ DOMAIN pending_confirmation = {"function_name", "arguments"}
  /\ (affirmed_turn \/ rejected_turn) => pending_confirmation = None
  /\ ambiguous_turn => pending_confirmation = turn.before.pending
  /\ (was_idle /\ turn.reply = PyStr(e_two_calls)) => pending_confirmation /= None
  /\ exchanges < MaxExchanges =>
       /\ \A prompt \in CyclePrompts : ENABLED Turn(prompt)
       /\ pending_confirmation = None => ENABLED IdleTurn(p_no, e_two_calls, "list")

\* C13 witness: the pending action was rejected and a later turn stored a proposal
\* again
C13_Witness ==
  /\ was_idle /\ turn.found /= None /\ pending_confirmation /= None
  /\ \E i \in 1..Len(messages) : messages[i] = assistant_message([kind |-> "cancelled"])

\* candidates: (start, end) with an opening brace at start and a closing brace at end
brace_pairs(text) ==
  {c \in (1..Len(text)) \X (1..Len(text)) :
     c[1] < c[2] /\ text[c[1]] = "{" /\ text[c[2]] = "}"}

\* candidate c is tried before candidate d: opening braces from left to right,
\* and for one opening brace the closing braces from the end leftwards
tried_before(c, d) == c[1] < d[1] \/ (c[1] = d[1] /\ c[2] > d[2])

\* the candidate parses as a JSON object with the keys tool and parameters
qualifies(text, c) ==
  LET r == json_loads(SubSeq(text, c[1], c[2]))
  IN r.ok /\ r.val.t = "dict" /\ {<<"t","o","o","l">>, <<"p","a","r","a","m","e","t","e","r","s">>} \subseteq DOMAIN r.val.map

\* the object of the first qualifying candidate, None without one
first_qualifying(text, q) ==
  IF q = {} THEN None
  ELSE LET c == CHOOSE c \in q : \A d \in q : d = c \/ tried_before(c, d)
       IN json_loads(SubSeq(text, c[1], c[2])).val

\* what the stated extraction order yields for each reply text
stated_call ==
  [text \in ExtractTexts |->
     IF Contains(<<"{">>, text) /\ Contains(<<"t","o","o","l">>, text)
     THEN first_qualifying(text, {c \in brace_pairs(text) : qualifies(text, c)})
     ELSE None]

\* C14: the call found in a reply is the object of the first candidate, in the
\* order opening braces left to right and closing braces right to left, that parses
\* as a JSON object with the keys tool and parameters, and none when there is no
\* such candidate or the text lacks "{" or "tool"; prose around a single call does
\* not hide it, and of two calls written one after the other the first is found.
C14_ExtractionOrder ==
  was_idle =>
    /\ turn.found = stated_call[turn.reply.s]
    /\ turn.reply.s \in {e_no_brace, e_no_tool_word, e_tool_in_prose, r_prose} => turn.found = None
    /\ turn.reply = PyStr(r_create_page) =>
         turn.found /= None /\ turn.found.map[<<"t","o","o","l">>] = PyStr(<<"c","r","e","a","t","e","_","p","a","g","e">>)
    /\ turn.reply.s \in {e_two_calls, e_invalid_first, e_brace_after} =>
         turn.found /= None /\ turn.found.map[<<"t","o","o","l">>] = PyStr(<<"l","i","s","t","_","c","o","u","r","s","e","s">>)
    /\ turn.reply = PyStr(e_adjacent) =>
         turn.found /= None /\ turn.found.map[<<"t","o","o","l">>] = PyStr(<<"g","e","t","_","c","o","u","r","s","e">>)

\* C14 witness: a reply with two calls was handled and the first one is pending
C14_Witness ==
  /\ was_idle /\ turn.reply = PyStr(e_two_calls)
  /\ pending_confirmation /= None
  /\ pending_confirmation.function_name = PyStr(<<"l","i","s","t","_","c","o","u","r","s","e","s">>)

\* the last turn affirmed a pending action that reached the placeholder guard
guard_reached ==
  affirmed_turn /\ turn.branch \in {"placeholder", "invalid_event", "executed", "tool_raised"}

\* the mapping the guard was given in that turn
guarded_args ==
  normalize(turn.before.pending.arguments.map,
            find_tool(turn.before.pending.function_name.s).properties,
            turn.before.course)

\* a text of the form <[A-Z_]+>
upper_tag(s) ==
  /\ Len(s) >= 3 /\ s[1] = "<" /\ s[Len(s)] = ">"
  /\ \A i \in 2..(Len(s) - 1) : IsIn(s[i], UpperLetters) \/ s[i] = "_"

\* the bare-tag rule over the mapping args, rejected telling whether the guard failed
bare_tag_rule(args, rejected) ==
  /\ (\E k \in DOMAIN args : args[k].t = "str" /\ upper_tag(args[k].s)) => rejected
  /\ rejected =>
       \E k \in DOMAIN args :
         /\ args[k].t = "str"
         /\ \/ \E m \in TemplateMarkers : Contains(m, upper(args[k].s))
            \/ /\ ~Contains(<<"<","/">>, args[k].s)
               /\ startswith(strip(args[k].s), <<"<">>) /\ endswith(strip(args[k].s), <<">">>)

\* C15: the guard fails whenever a string value of the mapping it is given has the
\* form <[A-Z_]+>, and a failure is always due to a value that holds a template
\* marker or that, without the whitespace around it, starts with "<", ends with ">"
\* and does not contain "</": a value containing "</" never fails the bare-tag rule.
C15_BareTagRule ==
  guard_reached => bare_tag_rule(guarded_args, turn.branch = "placeholder")

\* C15 witness: a page body that is HTML with whitespace around it was confirmed and
\* the page was created with it
C15_Witness ==
  /\ guard_reached /\ turn.branch = "executed"
  /\ Len(turn_calls) = 1
  /\ <<"b","o","d","y">> \in DOMAIN turn_calls[1].args
  /\ turn_calls[1].args[<<"b","o","d","y">>] = PyStr(<<" "," ","<","b",">","x","<","/","b",">"," ">>)

\* for each string value: what it becomes under integer, number and boolean
StringCoercions ==
  {[raw |-> PyStr(<<"1","2","3">>), integer |-> PyInt(123), number |-> PyFloat(FALSE, 123, <<>>),
    boolean |-> FALSE],
   [raw |-> PyStr(<<"a","b","c">>), integer |-> PyStr(<<"a","b","c">>), number |-> PyStr(<<"a","b","c">>), boolean |-> FALSE],
   [raw |-> PyStr(<<"Y","e","s">>), integer |-> PyStr(<<"Y","e","s">>), number |-> PyStr(<<"Y","e","s">>), boolean |-> TRUE],
   [raw |-> PyStr(<<"1">>), integer |-> PyInt(1), number |-> PyFloat(FALSE, 1, <<>>),
    boolean |-> TRUE],
   [raw |-> PyStr(<<"T","R","U","E">>), integer |-> PyStr(<<"T","R","U","E">>), number |-> PyStr(<<"T","R","U","E">>),
    boolean |-> TRUE],
   [raw |-> PyStr(<<"1",".","5">>), integer |-> PyStr(<<"1",".","5">>), number |-> PyFloat(FALSE, 1, <<"5">>),
    boolean |-> FALSE],
   [raw |-> PyStr(<<" ","4","2"," ">>), integer |-> PyInt(42), number |-> PyFloat(FALSE, 42, <<>>),
    boolean |-> FALSE],
   [raw |-> PyStr(<<"-","3">>), integer |-> PyInt(0 - 3), number |-> PyFloat(TRUE, 3, <<>>),
    boolean |-> FALSE],
   [raw |-> PyStr(<<"n","o">>), integer |-> PyStr(<<"n","o">>), number |-> PyStr(<<"n","o">>), boolean |-> FALSE],
   [raw |-> PyStr(<<>>), integer |-> PyStr(<<>>), number |-> PyStr(<<>>), boolean |-> FALSE],
   [raw |-> PyStr(<<"1","_","0","0","0">>), integer |-> PyInt(1000), number |-> PyFloat(FALSE, 1000, <<>>),
    boolean |-> FALSE],
   [raw |-> PyStr(<<"0">>), integer |-> PyInt(0), number |-> PyFloat(FALSE, 0, <<>>),
    boolean |-> FALSE]}

\* the truthiness of each value that is not a string
ValueTruth ==
  {<<PyInt(5), TRUE>>, <<PyInt(0), FALSE>>, <<PyFloat(FALSE, 2, <<"5">>), TRUE>>,
   <<PyBool(TRUE), TRUE>>, <<PyBool(FALSE), FALSE>>, <<None, FALSE>>,
   <<PyList(<<>>), FALSE>>, <<PyList(<<PyStr(<<"a">>)>>), TRUE>>}

\* value is what raw becomes for a parameter declared with this type
stated_coercion(raw, type, value) ==
  CASE type = "integer" /\ raw.t = "str" ->
         \E r \in StringCoercions : r.raw = raw /\ value = r.integer
    [] type = "number" /\ raw.t = "str" ->
         \E r \in StringCoercions : r.raw = raw /\ value = r.number
    [] type = "boolean" /\ raw.t = "str" ->
         \E r \in StringCoercions : r.raw = raw /\ value = PyBool(r.boolean)
    [] type = "boolean" /\ raw.t /= "str" ->
         \E r \in ValueTruth : r[1] = raw /\ value = PyBool(r[2])
    [] type \in {"string", "array", "object"} -> value = raw
    [] OTHER -> TRUE

\* the arguments of the call follow the stated coercion of the raw arguments; the
\* course id the sidebar supplies for an empty course_id is not a coerced value
coerced_as_stated(raw, props, args, course) ==
  \A k \in DOMAIN raw :
    (k = k_course_id /\ ~Truthy(raw[k]) /\ Truthy(course))
      \/ (k \in DOMAIN args /\ stated_coercion(raw[k], props[k], args[k]))

\* C16: the arguments of a confirmed create_assignment or create_quiz call are the
\* proposed values coerced by declared type: under integer a string that is a
\* decimal integer becomes that integer and any other string stays; under number a
\* string that is a decimal number becomes that float and any other string stays;
\* under boolean a string is true exactly when its lower-cased form is "true", "1"
\* or "yes" and any other value becomes its truthiness; string and array values
\* are unchanged.
C16_TypeCoercion ==
  (/\ guard_reached /\ turn.branch = "executed"
   /\ turn.before.pending.function_name.s \in {<<"c","r","e","a","t","e","_","a","s","s","i","g","n","m","e","n","t">>, <<"c","r","e","a","t","e","_","q","u","i","z">>}) =>
    /\ Len(turn_calls) = 1
    /\ coerced_as_stated(turn.before.pending.arguments.map,
                         find_tool(turn.before.pending.function_name.s).properties,
                         turn_calls[1].args, turn.before.course)

\* C16 witness: create_quiz proposed with course_id "123" was called with the
\* integer 123
C16_Witness ==
  /\ guard_reached /\ turn.branch = "executed"
  /\ turn.before.pending.function_name = PyStr(<<"c","r","e","a","t","e","_","q","u","i","z">>)
  /\ turn.before.pending.arguments.map[<<"c","o","u","r","s","e","_","i","d">>] = PyStr(<<"1","2","3">>)
  /\ Len(turn_calls) = 1
  /\ turn_calls[1].args[<<"c","o","u","r","s","e","_","i","d">>] = PyInt(123)

\* synonym is renamed to canonical exactly when it is present, not declared, and
\* canonical is declared
rename_if(a, synonym, canonical, declared) ==
  IF synonym \in DOMAIN a /\ synonym \notin declared /\ canonical \in declared
  THEN [k \in (DOMAIN a \ {synonym}) \cup {canonical} |->
          IF k = canonical THEN a[synonym] ELSE a[k]]
  ELSE a

\* the table content->body, subject->title, body->message, is_published->published,
\* in that order, in one pass
stated_rewrite(a, declared) ==
  rename_if(rename_if(rename_if(rename_if(a, <<"c","o","n","t","e","n","t">>, <<"b","o","d","y">>, declared),
                                <<"s","u","b","j","e","c","t">>, <<"t","i","t","l","e">>, declared),
                      <<"b","o","d","y">>, <<"m","e","s","s","a","g","e">>, declared),
            <<"i","s","_","p","u","b","l","i","s","h","e","d">>, <<"p","u","b","l","i","s","h","e","d">>, declared)

AliasNames == {<<"c","o","n","t","e","n","t">>, <<"b","o","d","y">>, <<"s","u","b","j","e","c","t">>, <<"t","i","t","l","e">>, <<"m","e","s","s","a","g","e">>, <<"i","s","_","p","u","b","l","i","s","h","e","d">>, <<"p","u","b","l","i","s","h","e","d">>}

\* the arguments of the call under the alias names are the rewritten raw arguments,
\* coerced by the declared type of the name they ended under
rewritten_as_stated(stated, props, args) ==
  \A k \in AliasNames :
    /\ (k \in DOMAIN args) = (k \in DOMAIN stated /\ k \in DOMAIN props)
    /\ k \in DOMAIN args => args[k] = convert_value(stated[k], props[k])

\* C17: in a confirmed call the synonyms content, subject, body and is_published
\* have been renamed to body, title, message and published, in that order in one
\* pass, each exactly when the synonym is present and not declared and the
\* canonical name is declared, and the renamed value is coerced by the canonical
\* parameter's type; the alias pass does the same against every schema over these
\* names.
C17_AliasRewrite ==
  guard_reached =>
    /\ \A declared \in SUBSET AliasNames :
         map_aliases(turn.before.pending.arguments.map, declared) =
           stated_rewrite(turn.before.pending.arguments.map, declared)
    /\ turn.branch = "executed" =>
         /\ Len(turn_calls) = 1
         /\ rewritten_as_stated(
              stated_rewrite(turn.before.pending.arguments.map,
                             DOMAIN find_tool(turn.before.pending.function_name.s).properties),
              find_tool(turn.before.pending.function_name.s).properties,
              turn_calls[1].args)
    /\ (turn.branch = "executed" /\ turn.before.pending.arguments = PyDict(<<"c","o","n","t","e","n","t">> :> PyStr(<<"X">>))
        /\ turn.before.pending.function_name = PyStr(<<"c","r","e","a","t","e","_","p","a","g","e">>)) =>
         /\ <<"b","o","d","y">> \in DOMAIN turn_calls[1].args
         /\ turn_calls[1].args[<<"b","o","d","y">>] = PyStr(<<"X">>)
         /\ <<"c","o","n","t","e","n","t">> \notin DOMAIN turn_calls[1].args

\* C17 witness: update_module proposed with is_published "Yes" was called with
\* published true
C17_Witness ==
  /\ guard_reached /\ turn.branch = "executed"
  /\ turn.before.pending.arguments = PyDict(<<"i","s","_","p","u","b","l","i","s","h","e","d">> :> PyStr(<<"Y","e","s">>))
  /\ Len(turn_calls) = 1
  /\ <<"p","u","b","l","i","s","h","e","d">> \in DOMAIN turn_calls[1].args
  /\ turn_calls[1].args[<<"p","u","b","l","i","s","h","e","d">>] = PyBool(TRUE)

\* normalizing the mapping out again, for the same schema and sidebar course, gives out
renormalized_same(out, props, course) == normalize(out, props, course) = out

\* C18: the normalized arguments of a confirmed action are a fixed point of the
\* normalization, for the same tool schema and the same sidebar course.
C18_Idempotent ==
  guard_reached =>
    renormalized_same(guarded_args,
                      find_tool(turn.before.pending.function_name.s).properties,
                      turn.before.course)

\* C18, the divergence: get_course proposed with course_id "0" was confirmed with
\* course 7 selected; the call was made with course_id 0, and normalizing these
\* arguments again puts the selected course in its place
C18_Diverged ==
  /\ guard_reached /\ turn.branch = "executed"
  /\ turn.before.course = PyInt(7)
  /\ turn.before.pending.arguments = PyDict(k_course_id :> PyStr(<<"0">>))
  /\ turn_calls[1].args = (k_course_id :> PyInt(0))
  /\ normalize(turn_calls[1].args, find_tool(<<"g","e","t","_","c","o","u","r","s","e">>).properties, turn.before.course)
       = (k_course_id :> PyInt(7))

\* C18, the extent of the divergence: the normalized arguments are a fixed point
\* whenever no course is selected or they hold no empty course_id
C18_FixedPointElsewhere ==
  (/\ guard_reached
   /\ \/ ~Truthy(turn.before.course)
      \/ k_course_id \notin DOMAIN guarded_args
      \/ Truthy(guarded_args[k_course_id])) =>
    renormalized_same(guarded_args,
                      find_tool(turn.before.pending.function_name.s).properties,
                      turn.before.course)

\* the smaller of ten and n
window_size(n) == IF n < 10 THEN n ELSE 10

\* sent is the last min(10, n) entries of h, in order
last_entries(sent, h) ==
  /\ Len(sent) = window_size(Len(h))
  /\ \A i \in 1..Len(sent) : sent[i] = h[Len(h) - Len(sent) + i]

\* C19: what an idle turn gives to the completion provider is the last min(10, n)
\* entries of the history, in order, the last of them the operator's message of
\* this turn; and handling a turn keeps every earlier entry of the history in place.
C19_ConversationWindow ==
  /\ was_idle =>
       /\ last_entries(turn.sent, Append(turn.before.messages, user_message(turn.prompt.s)))
       /\ turn.sent[Len(turn.sent)] = user_message(turn.prompt.s)
  /\ turn_handled => history_kept

\* C19 witness: an idle turn that found more than ten entries gave ten of them to
\* the provider and the history holds them all
C19_Witness ==
  /\ was_idle /\ Len(turn.before.messages) = 11
  /\ Len(turn.sent) = 10
  /\ turn.sent[1] = turn.before.messages[3]
  /\ Len(messages) = 13
  /\ exchanges > 0

\* C20: a call is found in a reply only when its tool is a string and its
\* parameters are an object, and only such a call is ever the pending action.
C20_TypedCalls ==
  /\ (was_idle /\ turn.found /= None) =>
       turn.found.map[<<"t","o","o","l">>].t = "str" /\ turn.found.map[<<"p","a","r","a","m","e","t","e","r","s">>].t = "dict"
  /\ pending_confirmation /= None =>
       /\ pending_confirmation.function_name.t = "str"
       /\ pending_confirmation.arguments.t = "dict"

\* C20, the divergence: the reply {"tool": "list_courses", "parameters": 3} was
\* handled; the number 3 is pending as the arguments of list_courses and the
\* operator is asked to confirm
C20_UntypedPending ==
  /\ was_idle /\ turn.reply = PyStr(e_parameters_number)
  /\ pending_confirmation =
       [function_name |-> PyStr(<<"l","i","s","t","_","c","o","u","r","s","e","s">>), arguments |-> PyInt(3)]
  /\ messages[Len(messages)].content =
       [kind |-> "confirmation_prompt", tool |-> PyStr(<<"l","i","s","t","_","c","o","u","r","s","e","s">>), parameters |-> PyInt(3)]

\* self-closed markup: starts with "<", ends with "/>", holds no "</" and no
\* template marker
self_closed(s) ==
  /\ startswith(s, <<"<">>) /\ endswith(s, <<"/",">">>)
  /\ ~Contains(<<"<","/">>, s)
  /\ ~\E m \in TemplateMarkers : Contains(m, upper(s))

\* C21: a mapping whose string values are self-closed markup or hold nothing that
\* looks like a placeholder passes the guard.
C21_SelfClosedPasses ==
  (/\ guard_reached
   /\ \A k \in DOMAIN guarded_args :
        guarded_args[k].t = "str" =>
          self_closed(guarded_args[k].s) \/ ~placeholder_like(guarded_args[k].s)) =>
    turn.branch /= "placeholder"

\* C21, the divergence: create_page proposed with the body "<br/>" was affirmed;
\* the guard failed, nothing was invoked and the failure message was recorded
C21_SelfClosedRejected ==
  /\ guard_reached /\ turn.branch = "placeholder"
  /\ turn.before.pending.arguments.map = (<<"t","i","t","l","e">> :> PyStr(<<"T">>) @@ <<"b","o","d","y">> :> PyStr(<<"<","b","r","/",">">>))
  /\ turn_calls = <<>>
  /\ messages[Len(messages)] = assistant_message([kind |-> "error", error |-> "placeholder"])

\* the last entry of the history as the last turn found it
prompt_before == turn.before.messages[Len(turn.before.messages)]

\* C22: when a confirmed action is executed, the confirmation prompt the operator
\* answered shows the parameter names and values the executor receives.
C22_PromptShowsExecuted ==
  (guard_reached /\ turn.branch \in {"executed", "tool_raised"}) =>
    /\ prompt_before.role = "assistant"
    /\ prompt_before.content.kind = "confirmation_prompt"
    /\ Len(turn_calls) = 1
    /\ prompt_before.content.tool = PyStr(turn_calls[1].op)
    /\ prompt_before.content.parameters = PyDict(turn_calls[1].args)

\* C22 amended: the confirmation prompt the operator answers shows the action and
\* the parameters as the model proposed them, which is the pending action; the
\* normalizer runs after the affirmation, and the executor receives the normalized
\* mapping, which is the one shown only when normalization changes nothing.
C22_PromptShowsProposal ==
  affirmed_turn =>
    /\ prompt_before = assistant_message(
         [kind |-> "confirmation_prompt",
          tool |-> turn.before.pending.function_name,
          parameters |-> turn.before.pending.arguments])
    /\ (guard_reached /\ turn.branch \in {"executed", "tool_raised"}) =>
         /\ Len(turn_calls) = 1
         /\ turn_calls[1].args = guarded_args
         /\ (PyDict(turn_calls[1].args) = prompt_before.content.parameters)
              = (guarded_args = turn.before.pending.arguments.map)

\* C22 witness: the prompt showed create_page with content "X"; after the
\* affirmation create_page was invoked with body "X"
C22_PromptDiffers ==
  /\ guard_reached /\ turn.branch = "executed"
  /\ prompt_before.content =
       [kind |-> "confirmation_prompt", tool |-> PyStr(<<"c","r","e","a","t","e","_","p","a","g","e">>),
        parameters |-> PyDict(<<"c","o","n","t","e","n","t">> :> PyStr(<<"X">>))]
  /\ Len(turn_calls) = 1
  /\ turn_calls[1].op = <<"c","r","e","a","t","e","_","p","a","g","e">>
  /\ turn_calls[1].args = (<<"b","o","d","y">> :> PyStr(<<"X">>))

\* the confirmed action's name is not a name of the catalog
unknown_action(pending) ==
  ~(pending.function_name.t = "str" /\ pending.function_name.s \in tool_names)

EventNames == {<<"o","f","f","e","r">>, <<"c","l","a","i","m">>, <<"c","o","n","c","l","u","d","e">>, <<"d","e","l","e","t","e">>, <<"u","n","d","e","l","e","t","e">>}

\* the confirmed action is update_course and the event it would be given is not one
\* of the five event names
disallowed_event(pending, args) ==
  /\ pending.function_name = PyStr(<<"u","p","d","a","t","e","_","c","o","u","r","s","e">>)
  /\ <<"e","v","e","n","t">> \in DOMAIN args
  /\ ~(args[<<"e","v","e","n","t">>].t = "str" /\ args[<<"e","v","e","n","t">>].s \in EventNames)

\* the last turn recorded the operator's text and this failure, invoked nothing and
\* left no action pending
failed_with(content) ==
  /\ turn_calls = <<>>
  /\ history_kept
  /\ turn_messages = <<user_message(turn.prompt.s), assistant_message(content)>>
  /\ pending_confirmation = None

\* C23: when the confirmed action's name is not in the catalog, or the action is
\* update_course and its event is not offer, claim, conclude, delete or undelete,
\* the turn invokes nothing, records a failure message that names the unknown
\* action or the event, and clears the pending action.
C23_ValidationPreventsExecution ==
  /\ (affirmed_turn /\ unknown_action(turn.before.pending)) =>
       failed_with([kind |-> "invalid_tool", name |-> turn.before.pending.function_name])
  /\ (guard_reached /\ turn.branch /= "placeholder"
      /\ disallowed_event(turn.before.pending, guarded_args)) =>
       failed_with([kind |-> "invalid_event", event |-> guarded_args[<<"e","v","e","n","t">>]])
  /\ (guard_reached /\ disallowed_event(turn.before.pending, guarded_args)) =>
       turn_calls = <<>> /\ pending_confirmation = None

\* C23 witness: update_course proposed with the event 5 was affirmed and refused
C23_Witness ==
  /\ guard_reached /\ turn.branch = "invalid_event"
  /\ turn.before.pending.arguments.map[<<"e","v","e","n","t">>] = PyInt(5)
  /\ calls = <<>> /\ pending_confirmation = None
  /\ messages[Len(messages)].content = [kind |-> "invalid_event", event |-> PyInt(5)]

\* raw holds no course_id or a falsy one
lacks_course(raw) == <<"c","o","u","r","s","e","_","i","d">> \notin DOMAIN raw \/ ~Truthy(raw[<<"c","o","u","r","s","e","_","i","d">>])

\* the course_id of the executor's arguments args, for the proposed arguments raw,
\* the schema props and the session's course at the confirmation
injected_as_stated(raw, props, course, args) ==
  /\ (Truthy(course) /\ <<"c","o","u","r","s","e","_","i","d">> \in DOMAIN props /\ lacks_course(raw)) =>
       <<"c","o","u","r","s","e","_","i","d">> \in DOMAIN args /\ args[<<"c","o","u","r","s","e","_","i","d">>] = course
  /\ (<<"c","o","u","r","s","e","_","i","d">> \in DOMAIN props /\ ~lacks_course(raw)) =>
       /\ <<"c","o","u","r","s","e","_","i","d">> \in DOMAIN args
       /\ args[<<"c","o","u","r","s","e","_","i","d">>] = convert_value(raw[<<"c","o","u","r","s","e","_","i","d">>], props[<<"c","o","u","r","s","e","_","i","d">>])
  /\ <<"c","o","u","r","s","e","_","i","d">> \notin DOMAIN props => <<"c","o","u","r","s","e","_","i","d">> \notin DOMAIN args

\* C24: in a confirmed call, when the session holds a course at the confirmation,
\* the schema declares course_id and the proposal has no course_id or a falsy one,
\* the executor's course_id is the session's course; a truthy course_id of the
\* proposal is kept (coerced by its type), and a schema without course_id gets none.
C24_ContextInjection ==
  (guard_reached /\ turn.branch = "executed") =>
    /\ Len(turn_calls) = 1
    /\ injected_as_stated(turn.before.pending.arguments.map,
                          find_tool(turn.before.pending.function_name.s).properties,
                          turn.before.course, turn_calls[1].args)

\* C24 witness: get_course proposed without arguments was confirmed with course 7
\* selected and called with course_id 7
C24_Witness ==
  /\ guard_reached /\ turn.branch = "executed"
  /\ turn.before.pending =
       [function_name |-> PyStr(<<"g","e","t","_","c","o","u","r","s","e">>), arguments |-> PyDict(EmptyMap)]
  /\ turn.before.course = PyInt(7)
  /\ Len(turn_calls) = 1
  /\ turn_calls[1].args = (<<"c","o","u","r","s","e","_","i","d">> :> PyInt(7))

\* the arguments as proposed, to which the last affirmed turn applied the rewrite
proposed_args == turn.before.pending.arguments.map

\* C25 as stated: an include_items that is true, "true" or "1" is removed and
\* include then holds "items" together with the elements it held before
C25_IncludeExtended ==
  (/\ guard_reached
   /\ <<"i","n","c","l","u","d","e","_","i","t","e","m","s">> \in DOMAIN proposed_args
   /\ proposed_args[<<"i","n","c","l","u","d","e","_","i","t","e","m","s">>] \in {PyBool(TRUE), PyStr(<<"t","r","u","e">>), PyStr(<<"1">>)}) =>
    /\ <<"i","n","c","l","u","d","e","_","i","t","e","m","s">> \notin DOMAIN map_include_items(proposed_args)
    /\ <<"i","n","c","l","u","d","e">> \in DOMAIN map_include_items(proposed_args)
    /\ map_include_items(proposed_args)[<<"i","n","c","l","u","d","e">>].t = "list"
    /\ \E i \in 1..Len(map_include_items(proposed_args)[<<"i","n","c","l","u","d","e">>].items) :
         map_include_items(proposed_args)[<<"i","n","c","l","u","d","e">>].items[i] = PyStr(<<"i","t","e","m","s">>)
    /\ (<<"i","n","c","l","u","d","e">> \in DOMAIN proposed_args /\ proposed_args[<<"i","n","c","l","u","d","e">>].t = "list") =>
         \A i \in 1..Len(proposed_args[<<"i","n","c","l","u","d","e">>].items) :
           \E j \in 1..Len(map_include_items(proposed_args)[<<"i","n","c","l","u","d","e">>].items) :
             map_include_items(proposed_args)[<<"i","n","c","l","u","d","e">>].items[j]
               = proposed_args[<<"i","n","c","l","u","d","e">>].items[i]

\* the values for which include_items is rewritten: those equal to True, "true",
\* "True" or "1" (the number 1 equals True)
RewrittenValues == {PyBool(TRUE), PyStr(<<"t","r","u","e">>), PyStr(<<"T","r","u","e">>), PyStr(<<"1">>), PyInt(1)}

\* the arguments raw without include_items
without_include_items(raw) == [k \in DOMAIN raw \ {<<"i","n","c","l","u","d","e","_","i","t","e","m","s">>} |-> raw[k]]

\* out is raw after the rewrite: include_items is always removed; for a rewritten
\* value include is set to the one-element array ["items"], whatever it held
rewritten_include(raw, out) ==
  IF <<"i","n","c","l","u","d","e","_","i","t","e","m","s">> \notin DOMAIN raw THEN out = raw
  ELSE IF raw[<<"i","n","c","l","u","d","e","_","i","t","e","m","s">>] \in RewrittenValues
  THEN /\ DOMAIN out = (DOMAIN raw \ {<<"i","n","c","l","u","d","e","_","i","t","e","m","s">>}) \cup {<<"i","n","c","l","u","d","e">>}
       /\ out[<<"i","n","c","l","u","d","e">>] = PyList(<<PyStr(<<"i","t","e","m","s">>)>>)
       /\ \A k \in DOMAIN out \ {<<"i","n","c","l","u","d","e">>} : out[k] = raw[k]
  ELSE out = without_include_items(raw)

\* C25 amended: an include_items argument is always removed; when its value equals
\* true, "true", "True" or "1", include is set to the array ["items"], replacing an
\* include array the arguments already carry; for any other value (false, null,
\* "yes") include is left as it was.
C25_IncludeItemsRewrite ==
  guard_reached => rewritten_include(proposed_args, map_include_items(proposed_args))

\* C25 witness: list_modules proposed with include_items true and include ["x"] was
\* confirmed; the rewrite put ["items"] in the place of ["x"]
C25_Witness ==
  /\ guard_reached /\ turn.branch = "executed"
  /\ <<"i","n","c","l","u","d","e","_","i","t","e","m","s">> \in DOMAIN proposed_args /\ <<"i","n","c","l","u","d","e">> \in DOMAIN proposed_args
  /\ proposed_args[<<"i","n","c","l","u","d","e","_","i","t","e","m","s">>] = PyBool(TRUE)
  /\ proposed_args[<<"i","n","c","l","u","d","e">>] = PyList(<<PyStr(<<"x">>)>>)
  /\ map_include_items(proposed_args)[<<"i","n","c","l","u","d","e">>] = PyList(<<PyStr(<<"i","t","e","m","s">>)>>)

ClaimPhrases == {<<"h","a","s"," ","b","e","e","n">>, <<"s","u","c","c","e","s","s","f","u","l","l","y">>, <<"c","r","e","a","t","e","d">>, <<"u","p","d","a","t","e","d">>, <<"a","d","d","e","d">>, <<"d","e","l","e","t","e","d">>,
                 <<"i"," ","h","a","v","e">>, <<"i"," ","w","i","l","l">>, <<"i","'","v","e">>}
ObjectWords == {<<"c","o","u","r","s","e">>, <<"p","a","g","e">>, <<"m","o","d","u","l","e">>, <<"a","n","n","o","u","n","c","e","m","e","n","t">>}
\* the operator's message asks for the course list, which triggers the fallback
triggers_fallback(prompt) ==
  Contains(<<"l","i","s","t">>, lower(prompt)) /\ Contains(<<"c","o","u","r","s","e">>, lower(prompt))
\* the condition under which the no-action warning follows the reply
warning_due(prompt, reply) ==
  /\ \E phrase \in ClaimPhrases : Contains(phrase, lower(reply))
  /\ \E word \in ObjectWords : Contains(word, lower(prompt))
\* the last turn was idle, the extractor found no call and the fallback did not run
plain_reply_turn ==
  /\ was_idle /\ turn.found = None /\ turn.reply /= None
  /\ ~triggers_fallback(turn.prompt.s)

\* C26: in an idle turn with no tool call found and no fallback, the recorded assistant
\* reply is the model's reply, followed by the no-action warning exactly when the
\* lower-cased reply holds a claim phrase and the lower-cased operator message holds an
\* object word; the turn invokes no tool and stores no pending action.
C26_HallucinationWarning ==
  plain_reply_turn =>
    /\ turn_messages
         = <<[role |-> "user", content |-> turn.prompt],
             [role |-> "assistant",
              content |-> [kind |-> "reply", text |-> turn.reply,
                           warning |-> warning_due(turn.prompt.s, turn.reply.s)]]>>
    /\ history_kept
    /\ Len(calls) = turn.before.calls
    /\ pending_confirmation = None

\* C26 witness: "SUCCESSFULLY Added." answered "Add a PAGE"; the reply was recorded with
\* the warning and nothing was invoked or stored
C26_Witness ==
  /\ plain_reply_turn
  /\ turn.prompt.s = q_upper_page /\ turn.reply.s = w_upper_claim
  /\ messages[Len(messages)].content.kind = "reply"
  /\ messages[Len(messages)].content.warning
  /\ Len(calls) = turn.before.calls /\ pending_confirmation = None

\* C27: while an action is pending no step calls the completion provider and no step
\* stores another action: the pending slot keeps its action or is emptied.
C27_NoProviderWhilePending ==
  [][pending_confirmation /= None =>
       /\ completions' = completions
       /\ pending_confirmation' \in {pending_confirmation, None}]_vars

\* C27 witness: an ambiguous text was handled while create_page was pending; the
\* provider was not called and the action is still pending
C27_Witness ==
  /\ ambiguous_turn
  /\ turn.prompt.s = p_add_page
  /\ pending_confirmation = turn.before.pending
  /\ pending_confirmation.function_name = PyStr(<<"c","r","e","a","t","e","_","p","a","g","e">>)
  /\ completions = turn.before.completions
  /\ Len(calls) = turn.before.calls

\* C28: whenever an action is pending, the last entry of the history is the
\* assistant's confirmation prompt for that action, with its name and parameters.
C28_PromptIsLastEntry ==
  pending_confirmation /= None =>
    /\ Len(messages) >= 1
    /\ messages[Len(messages)]
         = [role |-> "assistant",
            content |-> [kind |-> "confirmation_prompt",
                         tool |-> pending_confirmation.function_name,
                         parameters |-> pending_confirmation.arguments]]

\* C28 witness: after a cleared chat list_courses was proposed and an ambiguous text
\* followed; the history ends with the prompt for list_courses
C28_Witness ==
  /\ ambiguous_turn
  /\ pending_confirmation /= None
  /\ pending_confirmation.function_name = PyStr(<<"l","i","s","t","_","c","o","u","r","s","e","s">>)
  /\ Len(messages) = 3
  /\ messages[3].role = "assistant"
  /\ messages[3].content.kind = "confirmation_prompt"
  /\ messages[3].content.tool = PyStr(<<"l","i","s","t","_","c","o","u","r","s","e","s">>)
  /\ exchanges = 2

AliasRules == {<<<<"c","o","n","t","e","n","t">>, <<"b","o","d","y">>>>, <<<<"s","u","b","j","e","c","t">>, <<"t","i","t","l","e">>>>, <<<<"b","o","d","y">>, <<"m","e","s","s","a","g","e">>>>,
               <<<<"i","s","_","p","u","b","l","i","s","h","e","d">>, <<"p","u","b","l","i","s","h","e","d">>>>}

\* every value of out is the value raw holds under the same name or under a name that
\* one alias rule renames to it
one_hop(raw, out) ==
  \A k \in DOMAIN out :
    \/ k \in DOMAIN raw /\ out[k] = raw[k]
    \/ \E rule \in AliasRules : rule[2] = k /\ rule[1] \in DOMAIN raw /\ out[k] = raw[rule[1]]

\* the value under content does not end under message
content_not_message(raw, out) ==
  (<<"c","o","n","t","e","n","t">> \in DOMAIN raw /\ <<"m","e","s","s","a","g","e">> \in DOMAIN out) =>
    \/ <<"m","e","s","s","a","g","e">> \in DOMAIN raw /\ out[<<"m","e","s","s","a","g","e">>] = raw[<<"m","e","s","s","a","g","e">>]
    \/ <<"b","o","d","y">> \in DOMAIN raw /\ out[<<"m","e","s","s","a","g","e">>] = raw[<<"b","o","d","y">>]

\* the arguments of the call, before their coercion, come from raw in one hop
delivered_one_hop(raw, props, args) ==
  \A k \in DOMAIN args :
    \/ k \in DOMAIN raw /\ args[k] = convert_value(raw[k], props[k])
    \/ \E rule \in AliasRules :
         /\ rule[2] = k /\ rule[1] \in DOMAIN raw
         /\ args[k] = convert_value(raw[rule[1]], props[k])
    \/ k = <<"c","o","u","r","s","e","_","i","d">> /\ args[k] = turn.before.course

\* C29: for every schema over the alias names, the alias pass moves a value through at
\* most one rule, and the value under content never ends under message; the arguments
\* of a confirmed call hold, under each name, the proposed value of that name or of
\* the one synonym that is renamed to it.
C29_NoDoubleHop ==
  guard_reached =>
    /\ \A declared \in SUBSET AliasNames :
         /\ one_hop(proposed_args, map_aliases(proposed_args, declared))
         /\ content_not_message(proposed_args, map_aliases(proposed_args, declared))
    /\ turn.branch = "executed" =>
         /\ Len(turn_calls) = 1
         /\ delivered_one_hop(proposed_args,
                              find_tool(turn.before.pending.function_name.s).properties,
                              turn_calls[1].args)
         /\ content_not_message(proposed_args, turn_calls[1].args)

\* C29 witness: create_announcement proposed with content "X" and body "B" was called
\* with message "B"; "X" was delivered under no name
C29_Witness ==
  /\ guard_reached /\ turn.branch = "executed"
  /\ turn.before.pending.function_name = PyStr(<<"c","r","e","a","t","e","_","a","n","n","o","u","n","c","e","m","e","n","t">>)
  /\ proposed_args = (<<"c","o","n","t","e","n","t">> :> PyStr(<<"X">>) @@ <<"b","o","d","y">> :> PyStr(<<"B">>))
  /\ Len(turn_calls) = 1
  /\ <<"m","e","s","s","a","g","e">> \in DOMAIN turn_calls[1].args
  /\ turn_calls[1].args[<<"m","e","s","s","a","g","e">>] = PyStr(<<"B">>)
  /\ \A k \in DOMAIN turn_calls[1].args : turn_calls[1].args[k] /= PyStr(<<"X">>)

\* the last turn affirmed a pending action and invoked its tool
invoked_turn == guard_reached /\ turn.branch \in {"executed", "tool_raised"}

====
